---- MODULE Spec2Model ----
(***************************************************************************)
(* VeriAI: the verification registry (VeriAISolana), the oracle relayer    *)
(* (SolanaOracleRelayer), the certificate issuer (VeriAINFTSolana) and the *)
(* policy library (VerificationLibrary).                                   *)
(*                                                                         *)
(* Amounts are counted in units of 10^9 wei, so that 1 ether = 10^9 fits   *)
(* the model checker's integers: MIN_VERIFICATION_FEE = 0.001 ether is     *)
(* 10^6 and MAX_VERIFICATION_FEE = 1 ether is 10^9.  keccak256 is modelled *)
(* as an injective tagging of its (packed) argument.  A transaction that   *)
(* reverts leaves every contract's storage as it was.  For every external  *)
(* function F, FResult(args) is what a caller of F(args) sees in the       *)
(* current state: "ok", or the reason of the revert.                       *)
(***************************************************************************)
EXTENDS Integers, Sequences, FiniteSets, TLC

\* ------------------------------------------------------------------------
\* Bounds of the model
\* ------------------------------------------------------------------------
\* accepted submissions per run (guards _requestCounter)
MaxRequests == 2
\* blocks mined per run (guards block.number)
MaxBlock == 2
\* certificates minted per run of the issuer on its own
MaxTokens == 2

\* ------------------------------------------------------------------------
\* Accounts
\* ------------------------------------------------------------------------
ZERO == "0x0"
ADMIN == "admin"
REGISTRY == "registry"
RELAYER_OWNER == "relayerOwner"
NFT_ADDR == "nft"
RELAYER_ADDR == "relayer"
\* an address at which no contract is deployed
VACANT_ADDR == "vacant"
Users == {"alice", "bob"}

\* ReentrancyGuard
_NOT_ENTERED == 1
_ENTERED == 2

\* VeriAISolana constructor: DEPLOYMENT_TIME = block.timestamp,
\* _verificationFee = _initialFee
DEPLOYMENT_TIME == 100000
INITIAL_FEE == 1000000

\* ------------------------------------------------------------------------
\* VerificationLibrary
\* ------------------------------------------------------------------------
MIN_VERIFICATION_FEE == 1000000
MAX_VERIFICATION_FEE == 1000000000
MAX_PROMPT_LENGTH == 2000
MAX_MODEL_LENGTH == 50
RATE_LIMIT_WINDOW == 60
MAX_DAILY_REQUESTS == 100
REQUEST_TIMEOUT == 86400
SECONDS_PER_DAY == 86400

\* a Solidity mapping: every key not written reads as the default
Get(m, k, default) == IF k \in DOMAIN m THEN m[k] ELSE default
Put(m, k, v) == [x \in DOMAIN m \cup {k} |-> IF x = k THEN v ELSE m[x]]

RECURSIVE Repeat(_, _)
Repeat(s, n) ==
    IF n = 0 THEN ""
    ELSE LET half == Repeat(s, n \div 2) IN
         IF n % 2 = 0 THEN half \o half ELSE half \o half \o s

validateFee(fee) ==
    fee >= MIN_VERIFICATION_FEE /\ fee <= MAX_VERIFICATION_FEE

\* "ok", or the reason of the require that fails
validateVerificationInput(prompt, model) ==
    IF ~(Len(prompt) > 0 /\ Len(prompt) <= MAX_PROMPT_LENGTH)
    THEN "Invalid prompt length"
    ELSE IF ~(Len(model) > 0 /\ Len(model) <= MAX_MODEL_LENGTH)
    THEN "Invalid model length"
    ELSE "ok"

checkRateLimit_strict(lastRequestTime, currentTime) ==
    currentTime > lastRequestTime + RATE_LIMIT_WINDOW

checkRateLimit(lastRequestTime, currentTime) ==
    currentTime >= lastRequestTime + RATE_LIMIT_WINDOW

checkDailyLimit_inclusive(dailyCount) == dailyCount <= MAX_DAILY_REQUESTS

checkDailyLimit(dailyCount) == dailyCount < MAX_DAILY_REQUESTS

\* keccak256(abi.encodePacked(requester, prompt, model, timestamp, nonce)):
\* the two strings are packed without their lengths
generateRequestId(requester, prompt, model, timestamp, nonce) ==
    <<"keccak256", requester, prompt \o model, timestamp, nonce>>

\* keccak256(abi.encodePacked(output))
calculateOutputHash(output) == <<"keccak256", output>>

\* variant: the timeout is not added to the request time
isRequestExpired_noTimeout(requestTime, currentTime) ==
    currentTime > requestTime

isRequestExpired_inclusive(requestTime, currentTime) ==
    currentTime >= requestTime + REQUEST_TIMEOUT

isRequestExpired(requestTime, currentTime) ==
    currentTime > requestTime + REQUEST_TIMEOUT

\* "revert" stands for require(timestamp >= deploymentTime) failing
\* variant: every timestamp is of the day of deployment
timestampToDay_firstDay(timestamp, deploymentTime) ==
    IF timestamp >= deploymentTime THEN 0 ELSE -1

timestampToDay(timestamp, deploymentTime) ==
    IF timestamp >= deploymentTime
    THEN (timestamp - deploymentTime) \div SECONDS_PER_DAY
    ELSE -1

\* abi.encode(prompt, model, requester, timestamp)
encodeVerificationData(prompt, model, requester, timestamp) ==
    <<prompt, model, requester, timestamp>>

\* ------------------------------------------------------------------------
\* State
\* ------------------------------------------------------------------------
VARIABLES
    \* the ledger
    now,                  \* block.timestamp
    blockNumber,          \* block.number
    treasuryReceipts,     \* the values the treasury account has received
    pythFeed,             \* IPythPriceFeeds: SOL/USD price and its timestamp
    \* VeriAISolana
    _requests, _userRequests, _requestCount, _lastRequestTime,
    _dailyRequestCount, _requestCounter, _totalRequests, _totalVerified,
    _totalFailed, _verificationFee, _nftContract, _paused, _roles,
    _oracleRelayer,       \* the address the registry calls the relayer at
    nftMintedEvents,      \* the NFTMinted events emitted
    fulfilledOutputs,     \* requestId -> the output argument of the
                          \* fulfillVerification that succeeded (calldata)
    \* MultichainContractService
    defaultChain,         \* the chain used when a call names none
    routerReply,          \* the router's answer to its last call and the
                          \* backends it invoked for it, in order
    _status,              \* ReentrancyGuard._status
    inFlight,             \* the requestVerification that is executing its
                          \* transfer to the treasury, <<>> if there is none
    \* SolanaOracleRelayer
    requests, processedAttestations, authorizedCallers,
    \* VeriAINFTSolana
    _tokenIdCounter, _owners, _balances, _tokenURIs, _tokenMetadata,
    _tokensByOwner, _tokensByModel, _baseTokenURI, _nftRoles

ledgerVars == <<now, blockNumber>>
feedVars == <<pythFeed>>
registryVars == <<_requests, _userRequests, _requestCount, _lastRequestTime,
                  _dailyRequestCount, _requestCounter, _totalRequests,
                  _totalVerified, _totalFailed, _verificationFee, _nftContract,
                  _paused, _roles, nftMintedEvents, fulfilledOutputs,
                  treasuryReceipts, _oracleRelayer>>
relayerVars == <<requests, processedAttestations, authorizedCallers>>
nftVars == <<_tokenIdCounter, _owners, _balances, _tokenURIs, _tokenMetadata,
             _tokensByOwner, _tokensByModel, _baseTokenURI, _nftRoles>>
callVars == <<_status, inFlight>>
routerVars == <<defaultChain, routerReply>>
vars == <<ledgerVars, callVars, routerVars, feedVars, registryVars, relayerVars, nftVars>>

\* enum VerificationStatus
Pending == "Pending"
Verified == "Verified"
Failed == "Failed"
Expired == "Expired"

\* bytes32(0)
ZERO_BYTES32 == <<>>

\* the value of _requests[id] for an id never written
EmptyRequest ==
    [requester |-> ZERO, prompt |-> "", model |-> "", timestamp |-> 0,
     status |-> Pending, outputHash |-> ZERO_BYTES32,
     attestationId |-> ZERO_BYTES32, feePaid |-> 0, nftMinted |-> FALSE]

\* the value of requests[id] (relayer) for an id never written
EmptyAttestationRequest ==
    [requester |-> ZERO, data |-> <<>>, timestamp |-> 0, fulfilled |-> FALSE,
     attestationId |-> ZERO_BYTES32]

\* role identifiers
DEFAULT_ADMIN_ROLE == "DEFAULT_ADMIN_ROLE"
ORACLE_ROLE == "ORACLE_ROLE"
PAUSER_ROLE == "PAUSER_ROLE"
FEE_MANAGER_ROLE == "FEE_MANAGER_ROLE"
MINTER_ROLE == "MINTER_ROLE"
UPDATER_ROLE == "UPDATER_ROLE"

\* AccessManager of VeriAISolana: msgSender() returns _admin, whoever calls
msgSender == ADMIN
hasRole(role, account) == <<role, account>> \in _roles
onlyRole(role) == hasRole(role, msgSender)

\* AccessManager of VeriAINFTSolana
nftHasRole(role, account) == <<role, account>> \in _nftRoles
nftOnlyRole(role) == nftHasRole(role, ADMIN)

Init ==
    /\ now = DEPLOYMENT_TIME
    /\ blockNumber = 0
    /\ treasuryReceipts = <<>>
    /\ pythFeed = [price |-> 0, timestamp |-> 0, reverts |-> FALSE]
    /\ _requests = <<>>
    /\ _userRequests = <<>>
    /\ _requestCount = <<>>
    /\ _lastRequestTime = <<>>
    /\ _dailyRequestCount = <<>>
    /\ _requestCounter = 0
    /\ _totalRequests = 0
    /\ _totalVerified = 0
    /\ _totalFailed = 0
    /\ _verificationFee = INITIAL_FEE
    /\ _nftContract = ZERO
    /\ _oracleRelayer = RELAYER_ADDR
    /\ _status = _NOT_ENTERED
    /\ inFlight = <<>>
    /\ defaultChain = "solana"
    /\ routerReply = <<>>
    /\ _paused = FALSE
    /\ _roles = {<<DEFAULT_ADMIN_ROLE, ADMIN>>, <<ORACLE_ROLE, ADMIN>>,
                 <<FEE_MANAGER_ROLE, ADMIN>>}
    /\ nftMintedEvents = <<>>
    /\ fulfilledOutputs = <<>>
    /\ requests = <<>>
    /\ processedAttestations = {}
    /\ authorizedCallers = {RELAYER_OWNER}
    /\ _tokenIdCounter = 0
    /\ _owners = <<>>
    /\ _balances = <<>>
    /\ _tokenURIs = <<>>
    /\ _tokenMetadata = <<>>
    /\ _tokensByOwner = <<>>
    /\ _tokensByModel = <<>>
    /\ _baseTokenURI = "base/"
    /\ _nftRoles = {<<DEFAULT_ADMIN_ROLE, ADMIN>>, <<MINTER_ROLE, ADMIN>>,
                    <<UPDATER_ROLE, ADMIN>>}

\* ------------------------------------------------------------------------
\* The ledger and the price feed (external)
\* ------------------------------------------------------------------------
Prices == {20}

\* a block is mined d seconds after the last one
Tick(d) ==
    /\ now' = now + d
    /\ blockNumber' = blockNumber + 1
    /\ UNCHANGED <<callVars, routerVars, feedVars, registryVars, relayerVars, nftVars>>

\* Pyth publishes a price
PythUpdate(p) ==
    /\ pythFeed # [price |-> p, timestamp |-> now, reverts |-> FALSE]
    /\ pythFeed' = [price |-> p, timestamp |-> now, reverts |-> FALSE]
    /\ UNCHANGED <<ledgerVars, callVars, routerVars, registryVars, relayerVars, nftVars>>

\* Pyth holds price p with timestamp ts
PythPublish(p, ts) ==
    /\ pythFeed' = [pythFeed EXCEPT !.price = p, !.timestamp = ts]
    /\ UNCHANGED <<ledgerVars, callVars, routerVars, registryVars, relayerVars, nftVars>>

\* getPrice starts (down) or stops reverting
PythOutage(down) ==
    /\ pythFeed' = [pythFeed EXCEPT !.reverts = down]
    /\ UNCHANGED <<ledgerVars, callVars, routerVars, registryVars, relayerVars, nftVars>>

\* ------------------------------------------------------------------------
\* SolanaOracleRelayer
\* ------------------------------------------------------------------------
\* variant: the modifier lets every caller through
onlyAuthorized_anyCaller(sender) == TRUE

onlyAuthorized(sender) ==
    sender \in authorizedCallers \/ sender = RELAYER_OWNER

attestationIdFor(requestId, sender, verificationData) ==
    <<"keccak256", requestId, sender, verificationData, now, blockNumber>>

\* variant: a second request for the same requestId is not refused
requestAttestationResult_noDuplicateCheck(sender, requestId, switchboardOk) ==
    IF ~onlyAuthorized(sender) THEN "UnauthorizedCaller"
    ELSE IF ~switchboardOk THEN "OracleCallFailed"
    ELSE "ok"

\* requestAttestation as sender sees it: "ok" or the revert
requestAttestationResult(sender, requestId, switchboardOk) ==
    IF ~onlyAuthorized(sender) THEN "UnauthorizedCaller"
    ELSE IF Get(requests, requestId, EmptyAttestationRequest).timestamp # 0
    THEN "RequestAlreadyProcessed"
    ELSE IF ~switchboardOk THEN "OracleCallFailed"
    ELSE "ok"

requestAttestationStore(sender, requestId, verificationData) ==
    Put(requests, requestId,
        [requester |-> sender, data |-> verificationData, timestamp |-> now,
         fulfilled |-> FALSE,
         attestationId |-> attestationIdFor(requestId, sender, verificationData)])

\* a direct call of requestAttestation; switchboardOk is whether
\* switchboardOracle.requestData returns
requestAttestation(sender, requestId, verificationData, switchboardOk) ==
    LET res == requestAttestationResult(sender, requestId, switchboardOk) IN
    /\ requests' =
           IF res = "ok"
           THEN requestAttestationStore(sender, requestId, verificationData)
           ELSE requests
    /\ UNCHANGED <<processedAttestations, authorizedCallers>>
    /\ UNCHANGED <<ledgerVars, callVars, routerVars, feedVars, registryVars, nftVars>>

\* variant: a fulfilled record is not refused
fulfillAttestationResult_noFulfilledCheck(sender, requestId, proof) ==
    LET request == Get(requests, requestId, EmptyAttestationRequest) IN
    IF ~onlyAuthorized(sender) THEN "UnauthorizedCaller"
    ELSE IF request.timestamp = 0 THEN "InvalidRequest"
    ELSE IF ~(Len(proof) > 0) THEN "Invalid proof"
    ELSE "ok"

\* variant: the proof is looked at before the record
fulfillAttestationResult_proofFirst(sender, requestId, proof) ==
    LET request == Get(requests, requestId, EmptyAttestationRequest) IN
    IF ~onlyAuthorized(sender) THEN "UnauthorizedCaller"
    ELSE IF ~(Len(proof) > 0) THEN "Invalid proof"
    ELSE IF request.timestamp = 0 THEN "InvalidRequest"
    ELSE IF request.fulfilled THEN "RequestAlreadyProcessed"
    ELSE "ok"

fulfillAttestationResult(sender, requestId, proof) ==
    LET request == Get(requests, requestId, EmptyAttestationRequest) IN
    IF ~onlyAuthorized(sender) THEN "UnauthorizedCaller"
    ELSE IF request.timestamp = 0 THEN "InvalidRequest"
    ELSE IF request.fulfilled THEN "RequestAlreadyProcessed"
    ELSE IF ~(Len(proof) > 0) THEN "Invalid proof"
    ELSE "ok"

\* variant: the attestationId is not marked as processed
fulfillAttestation_unrecorded(sender, requestId, result, proof) ==
    LET res == fulfillAttestationResult(sender, requestId, proof) IN
    /\ IF res = "ok"
       THEN /\ requests' = [requests EXCEPT ![requestId].fulfilled = TRUE]
            /\ UNCHANGED <<processedAttestations, authorizedCallers>>
       ELSE UNCHANGED relayerVars
    /\ UNCHANGED <<ledgerVars, callVars, routerVars, feedVars, registryVars, nftVars>>

fulfillAttestation(sender, requestId, result, proof) ==
    LET res == fulfillAttestationResult(sender, requestId, proof) IN
    /\ IF res = "ok"
       THEN /\ requests' = [requests EXCEPT ![requestId].fulfilled = TRUE]
            /\ processedAttestations' =
                   processedAttestations \cup {requests[requestId].attestationId}
            /\ UNCHANGED authorizedCallers
       ELSE UNCHANGED relayerVars
    /\ UNCHANGED <<ledgerVars, callVars, routerVars, feedVars, registryVars, nftVars>>

verifyAttestation(attestationId) == attestationId \in processedAttestations

authorizeOracleCaller(sender, caller) ==
    LET res == IF sender = RELAYER_OWNER THEN "ok" ELSE "Not owner" IN
    /\ authorizedCallers' =
           IF res = "ok" THEN authorizedCallers \cup {caller}
           ELSE authorizedCallers
    /\ UNCHANGED <<requests, processedAttestations>>
    /\ UNCHANGED <<ledgerVars, callVars, routerVars, feedVars, registryVars, nftVars>>

revokeOracleCaller(sender, caller) ==
    LET res == IF sender = RELAYER_OWNER THEN "ok" ELSE "Not owner" IN
    /\ authorizedCallers' =
           IF res = "ok" THEN authorizedCallers \ {caller}
           ELSE authorizedCallers
    /\ UNCHANGED <<requests, processedAttestations>>
    /\ UNCHANGED <<ledgerVars, callVars, routerVars, feedVars, registryVars, nftVars>>

\* calculateSOLFee: (usdFee * 1e18) / (solPrice * 1e10) wei, which is
\* usdFee / (10 * solPrice) in units of 10^9 wei; -1 stands for the revert
\* InvalidPriceData
calculateSOLFee(usdFee) ==
    IF pythFeed.price <= 0 THEN -1
    ELSE usdFee \div (10 * pythFeed.price)

\* ------------------------------------------------------------------------
\* VeriAINFTSolana
\* ------------------------------------------------------------------------
Digits == <<"0", "1", "2", "3", "4", "5", "6", "7", "8", "9">>

RECURSIVE _toString(_)
_toString(value) ==
    IF value < 10 THEN Digits[value + 1]
    ELSE _toString(value \div 10) \o Digits[(value % 10) + 1]

_exists(tokenId) == Get(_owners, tokenId, ZERO) # ZERO

\* ownerOf: ZERO stands for the revert TokenNotFound
ownerOf(tokenId) == Get(_owners, tokenId, ZERO)

getTokensByOwner(owner) == Get(_tokensByOwner, owner, <<>>)

getTokensByModel(model) == Get(_tokensByModel, model, <<>>)

_validateMetadata(metadata) ==
    IF ~(Len(metadata.prompt) > 0) THEN "Empty prompt"
    ELSE IF ~(Len(metadata.model) > 0) THEN "Empty model"
    ELSE IF ~(Len(metadata.outputHash) > 0) THEN "Empty output hash"
    ELSE IF ~(metadata.timestamp > 0) THEN "Invalid timestamp"
    ELSE IF metadata.requestId = ZERO_BYTES32 THEN "Invalid request ID"
    ELSE "ok"

_generateTokenURI(metadata) ==
    _baseTokenURI \o _toString(metadata.timestamp) \o "?model="
        \o metadata.model \o "&verified="
        \o (IF metadata.verified THEN "true" ELSE "false")

\* mintVerificationNFT as its caller sees it: "ok" or the revert
mintVerificationNFTResult(recipient, metadata) ==
    IF ~nftOnlyRole(MINTER_ROLE) THEN "Access denied"
    ELSE IF recipient = ZERO THEN "Invalid recipient"
    ELSE IF _validateMetadata(metadata) # "ok" THEN _validateMetadata(metadata)
    ELSE IF _exists(_tokenIdCounter) THEN "Token already exists"
    ELSE "ok"

\* _mint: the balance and the owner of the new token
_mint(to, tokenId) ==
    /\ _balances' = Put(_balances, to, Get(_balances, to, 0) + 1)
    /\ _owners' = Put(_owners, tokenId, to)

\* the token is not entered in its owner's list
mintVerificationNFTStore_noIndex(recipient, metadata) ==
    LET tokenId == _tokenIdCounter IN
    /\ _tokenIdCounter' = _tokenIdCounter + 1
    /\ _mint(recipient, tokenId)
    /\ _tokenMetadata' = Put(_tokenMetadata, tokenId, metadata)
    /\ _tokenURIs' = Put(_tokenURIs, tokenId, _generateTokenURI(metadata))
    /\ _tokensByModel' =
           Put(_tokensByModel, metadata.model,
               Append(getTokensByModel(metadata.model), tokenId))
    /\ UNCHANGED <<_tokensByOwner, _baseTokenURI, _nftRoles>>

\* variant: the token is put at the head of the model's list
mintVerificationNFTStore_modelHead(recipient, metadata) ==
    LET tokenId == _tokenIdCounter IN
    /\ _tokenIdCounter' = _tokenIdCounter + 1
    /\ _mint(recipient, tokenId)
    /\ _tokenMetadata' = Put(_tokenMetadata, tokenId, metadata)
    /\ _tokenURIs' = Put(_tokenURIs, tokenId, _generateTokenURI(metadata))
    /\ _tokensByOwner' =
           Put(_tokensByOwner, recipient,
               Append(getTokensByOwner(recipient), tokenId))
    /\ _tokensByModel' =
           Put(_tokensByModel, metadata.model,
               <<tokenId>> \o getTokensByModel(metadata.model))
    /\ UNCHANGED <<_baseTokenURI, _nftRoles>>

\* what a mintVerificationNFT that does not revert writes
mintVerificationNFTStore(recipient, metadata) ==
    LET tokenId == _tokenIdCounter IN
    /\ _tokenIdCounter' = _tokenIdCounter + 1
    /\ _mint(recipient, tokenId)
    /\ _tokenMetadata' = Put(_tokenMetadata, tokenId, metadata)
    /\ _tokenURIs' = Put(_tokenURIs, tokenId, _generateTokenURI(metadata))
    /\ _tokensByOwner' =
           Put(_tokensByOwner, recipient,
               Append(getTokensByOwner(recipient), tokenId))
    /\ _tokensByModel' =
           Put(_tokensByModel, metadata.model,
               Append(getTokensByModel(metadata.model), tokenId))
    /\ UNCHANGED <<_baseTokenURI, _nftRoles>>

\* a direct call of the issuer
mintVerificationNFT(sender, recipient, metadata) ==
    LET res == mintVerificationNFTResult(recipient, metadata) IN
    /\ IF res = "ok" THEN mintVerificationNFTStore(recipient, metadata)
       ELSE UNCHANGED nftVars
    /\ UNCHANGED <<ledgerVars, callVars, routerVars, feedVars, registryVars, relayerVars>>

VALIDITY_PERIOD == 2592000

\* isVerificationValid (a view) called in a block of time blockTimestamp:
\* whether the token is valid, or the panic of
\* block.timestamp - metadata.timestamp below zero
isVerificationValidAt(tokenId, blockTimestamp) ==
    IF ~_exists(tokenId) THEN [result |-> "ok", valid |-> FALSE]
    ELSE IF blockTimestamp < _tokenMetadata[tokenId].timestamp
    THEN [result |-> "Panic(0x11)", valid |-> FALSE]
    ELSE [result |-> "ok",
          valid |-> /\ _tokenMetadata[tokenId].verified
                    /\ blockTimestamp - _tokenMetadata[tokenId].timestamp
                           < VALIDITY_PERIOD]

isVerificationValid(tokenId) == isVerificationValidAt(tokenId, now)

updateTokenMetadata(sender, tokenId, newMetadata) ==
    LET res == IF ~nftOnlyRole(UPDATER_ROLE) THEN "Access denied"
               ELSE IF ~_exists(tokenId) THEN "TokenNotFound"
               ELSE "ok" IN
    /\ _tokenURIs' =
           IF res = "ok" THEN Put(_tokenURIs, tokenId, newMetadata)
           ELSE _tokenURIs
    /\ UNCHANGED <<_tokenIdCounter, _owners, _balances, _tokenMetadata,
                   _tokensByOwner, _tokensByModel, _baseTokenURI, _nftRoles>>
    /\ UNCHANGED <<ledgerVars, callVars, routerVars, feedVars, registryVars, relayerVars>>

setBaseTokenURI(sender, newBaseURI) ==
    LET res == IF ~nftOnlyRole(DEFAULT_ADMIN_ROLE) THEN "Access denied"
               ELSE "ok" IN
    /\ _baseTokenURI' = IF res = "ok" THEN newBaseURI ELSE _baseTokenURI
    /\ UNCHANGED <<_tokenIdCounter, _owners, _balances, _tokenURIs,
                   _tokenMetadata, _tokensByOwner, _tokensByModel, _nftRoles>>
    /\ UNCHANGED <<ledgerVars, callVars, routerVars, feedVars, registryVars, relayerVars>>

\* grantRole of the issuer's AccessManager: getRoleAdmin is DEFAULT_ADMIN_ROLE
nftGrantRole(sender, role, account) ==
    LET res == IF ~nftOnlyRole(DEFAULT_ADMIN_ROLE) THEN "Access denied"
               ELSE "ok" IN
    /\ _nftRoles' =
           IF res = "ok" THEN _nftRoles \cup {<<role, account>>} ELSE _nftRoles
    /\ UNCHANGED <<_tokenIdCounter, _owners, _balances, _tokenURIs,
                   _tokenMetadata, _tokensByOwner, _tokensByModel,
                   _baseTokenURI>>
    /\ UNCHANGED <<ledgerVars, callVars, routerVars, feedVars, registryVars, relayerVars>>

\* ------------------------------------------------------------------------
\* VeriAISolana
\* ------------------------------------------------------------------------
PRICE_MAX_AGE == 3600
USD_FEE_IN_CENTS == 100

\* a price is stale from the maximum age on
_calculateDynamicFee_staleAtMaxAge ==
    IF _oracleRelayer # RELAYER_ADDR THEN [result |-> "revert", fee |-> 0]
    ELSE IF pythFeed.reverts
    THEN [result |-> "ok", fee |-> _verificationFee]
    ELSE IF now < pythFeed.timestamp
    THEN [result |-> "Panic(0x11)", fee |-> 0]
    ELSE IF now - pythFeed.timestamp >= PRICE_MAX_AGE
    THEN [result |-> "ok", fee |-> _verificationFee]
    ELSE IF calculateSOLFee(USD_FEE_IN_CENTS * 1000000) = -1
    THEN [result |-> "InvalidPriceData", fee |-> 0]
    ELSE [result |-> "ok", fee |-> calculateSOLFee(USD_FEE_IN_CENTS * 1000000)]

\* _calculateDynamicFee: the fee, or the revert that leaves the try's
\* success block (a catch clause catches the failure of the external call
\* getSOLUSDPrice only; a call to an address that holds no contract
\* reverts in the caller and is not caught)
_calculateDynamicFee ==
    IF _oracleRelayer # RELAYER_ADDR THEN [result |-> "revert", fee |-> 0]
    ELSE IF pythFeed.reverts
    THEN [result |-> "ok", fee |-> _verificationFee]
    ELSE IF now < pythFeed.timestamp
    THEN [result |-> "Panic(0x11)", fee |-> 0]
    ELSE IF now - pythFeed.timestamp > PRICE_MAX_AGE
    THEN [result |-> "ok", fee |-> _verificationFee]
    ELSE IF calculateSOLFee(USD_FEE_IN_CENTS * 1000000) = -1
    THEN [result |-> "InvalidPriceData", fee |-> 0]
    ELSE [result |-> "ok", fee |-> calculateSOLFee(USD_FEE_IN_CENTS * 1000000)]

currentDay == timestampToDay(now, DEPLOYMENT_TIME)

\* msg.value is not compared with the required fee
requestVerificationResult_noFeeCheck(requester, prompt, model, value, transferOk, switchboardOk) ==
    IF _paused THEN "Contract paused"
    ELSE IF _status = _ENTERED THEN "ReentrancyGuard: reentrant call"
    ELSE IF ~onlyRole(ORACLE_ROLE) THEN "Access denied"
    ELSE IF requester = ZERO THEN "Invalid requester"
    ELSE IF validateVerificationInput(prompt, model) # "ok"
    THEN validateVerificationInput(prompt, model)
    ELSE IF _calculateDynamicFee.result # "ok" THEN _calculateDynamicFee.result
    ELSE IF ~checkRateLimit(Get(_lastRequestTime, requester, 0), now)
    THEN "Rate limit exceeded"
    ELSE IF currentDay = -1 THEN "Invalid timestamp"
    ELSE IF ~checkDailyLimit(Get(_dailyRequestCount, <<requester, currentDay>>, 0))
    THEN "Daily limit exceeded"
    ELSE IF requestAttestationResult(
                REGISTRY,
                generateRequestId(requester, prompt, model, now, _requestCounter),
                switchboardOk) # "ok"
    THEN requestAttestationResult(
             REGISTRY,
             generateRequestId(requester, prompt, model, now, _requestCounter),
             switchboardOk)
    ELSE IF ~transferOk THEN "Fee transfer failed"
    ELSE "ok"

\* requestVerification(requester, prompt, model) with msg.value = value, as
\* its caller sees it: "ok" or the revert.  transferOk: the treasury accepts
\* the transfer; switchboardOk: the Switchboard oracle accepts requestData.
\* variant: the rate limit and the daily limit are checked before the fee
requestVerificationResult_limitsFirst(requester, prompt, model, value, transferOk, switchboardOk) ==
    IF _paused THEN "Contract paused"
    ELSE IF _status = _ENTERED THEN "ReentrancyGuard: reentrant call"
    ELSE IF ~onlyRole(ORACLE_ROLE) THEN "Access denied"
    ELSE IF requester = ZERO THEN "Invalid requester"
    ELSE IF validateVerificationInput(prompt, model) # "ok"
    THEN validateVerificationInput(prompt, model)
    ELSE IF ~checkRateLimit(Get(_lastRequestTime, requester, 0), now)
    THEN "Rate limit exceeded"
    ELSE IF currentDay = -1 THEN "Invalid timestamp"
    ELSE IF ~checkDailyLimit(Get(_dailyRequestCount, <<requester, currentDay>>, 0))
    THEN "Daily limit exceeded"
    ELSE IF _calculateDynamicFee.result # "ok" THEN _calculateDynamicFee.result
    ELSE IF ~(value >= _calculateDynamicFee.fee) THEN "Insufficient fee"
    ELSE IF requestAttestationResult(
                REGISTRY,
                generateRequestId(requester, prompt, model, now, _requestCounter),
                switchboardOk) # "ok"
    THEN requestAttestationResult(
             REGISTRY,
             generateRequestId(requester, prompt, model, now, _requestCounter),
             switchboardOk)
    ELSE IF ~transferOk THEN "Fee transfer failed"
    ELSE "ok"

\* variant: the failure of the relayer's requestAttestation is swallowed
requestVerificationResult_relayerIgnored(requester, prompt, model, value, transferOk, switchboardOk) ==
    IF _paused THEN "Contract paused"
    ELSE IF _status = _ENTERED THEN "ReentrancyGuard: reentrant call"
    ELSE IF ~onlyRole(ORACLE_ROLE) THEN "Access denied"
    ELSE IF requester = ZERO THEN "Invalid requester"
    ELSE IF validateVerificationInput(prompt, model) # "ok"
    THEN validateVerificationInput(prompt, model)
    ELSE IF _calculateDynamicFee.result # "ok" THEN _calculateDynamicFee.result
    ELSE IF ~(value >= _calculateDynamicFee.fee) THEN "Insufficient fee"
    ELSE IF ~checkRateLimit(Get(_lastRequestTime, requester, 0), now)
    THEN "Rate limit exceeded"
    ELSE IF currentDay = -1 THEN "Invalid timestamp"
    ELSE IF ~checkDailyLimit(Get(_dailyRequestCount, <<requester, currentDay>>, 0))
    THEN "Daily limit exceeded"
    ELSE IF ~transferOk THEN "Fee transfer failed"
    ELSE "ok"

\* variant: whenNotPaused is missing
requestVerificationResult_noPauseCheck(requester, prompt, model, value, transferOk, switchboardOk) ==
    IF _status = _ENTERED THEN "ReentrancyGuard: reentrant call"
    ELSE IF ~onlyRole(ORACLE_ROLE) THEN "Access denied"
    ELSE IF requester = ZERO THEN "Invalid requester"
    ELSE IF validateVerificationInput(prompt, model) # "ok"
    THEN validateVerificationInput(prompt, model)
    ELSE IF _calculateDynamicFee.result # "ok" THEN _calculateDynamicFee.result
    ELSE IF ~(value >= _calculateDynamicFee.fee) THEN "Insufficient fee"
    ELSE IF ~checkRateLimit(Get(_lastRequestTime, requester, 0), now)
    THEN "Rate limit exceeded"
    ELSE IF currentDay = -1 THEN "Invalid timestamp"
    ELSE IF ~checkDailyLimit(Get(_dailyRequestCount, <<requester, currentDay>>, 0))
    THEN "Daily limit exceeded"
    ELSE IF requestAttestationResult(
                REGISTRY,
                generateRequestId(requester, prompt, model, now, _requestCounter),
                switchboardOk) # "ok"
    THEN requestAttestationResult(
             REGISTRY,
             generateRequestId(requester, prompt, model, now, _requestCounter),
             switchboardOk)
    ELSE IF ~transferOk THEN "Fee transfer failed"
    ELSE "ok"

requestVerificationResult(requester, prompt, model, value, transferOk, switchboardOk) ==
    IF _paused THEN "Contract paused"
    ELSE IF _status = _ENTERED THEN "ReentrancyGuard: reentrant call"
    ELSE IF ~onlyRole(ORACLE_ROLE) THEN "Access denied"
    ELSE IF requester = ZERO THEN "Invalid requester"
    ELSE IF validateVerificationInput(prompt, model) # "ok"
    THEN validateVerificationInput(prompt, model)
    ELSE IF _calculateDynamicFee.result # "ok" THEN _calculateDynamicFee.result
    ELSE IF ~(value >= _calculateDynamicFee.fee) THEN "Insufficient fee"
    ELSE IF ~checkRateLimit(Get(_lastRequestTime, requester, 0), now)
    THEN "Rate limit exceeded"
    ELSE IF currentDay = -1 THEN "Invalid timestamp"
    ELSE IF ~checkDailyLimit(Get(_dailyRequestCount, <<requester, currentDay>>, 0))
    THEN "Daily limit exceeded"
    ELSE IF requestAttestationResult(
                REGISTRY,
                generateRequestId(requester, prompt, model, now, _requestCounter),
                switchboardOk) # "ok"
    THEN requestAttestationResult(
             REGISTRY,
             generateRequestId(requester, prompt, model, now, _requestCounter),
             switchboardOk)
    ELSE IF ~transferOk THEN "Fee transfer failed"
    ELSE "ok"

\* variant: the request counter is not advanced
requestVerificationStore_counterKept(requester, prompt, model, value) ==
    LET requestId ==
            generateRequestId(requester, prompt, model, now, _requestCounter)
        verificationData ==
            encodeVerificationData(prompt, model, requester, now)
    IN
    /\ _requests' =
           Put(_requests, requestId,
               [requester |-> requester, prompt |-> prompt, model |-> model,
                timestamp |-> now, status |-> Pending,
                outputHash |-> ZERO_BYTES32,
                attestationId |->
                    attestationIdFor(requestId, REGISTRY, verificationData),
                feePaid |-> value, nftMinted |-> FALSE])
    /\ _userRequests' =
           Put(_userRequests, requester,
               Append(Get(_userRequests, requester, <<>>), requestId))
    /\ _requestCount' =
           Put(_requestCount, requester, Get(_requestCount, requester, 0) + 1)
    /\ _lastRequestTime' = Put(_lastRequestTime, requester, now)
    /\ _dailyRequestCount' =
           Put(_dailyRequestCount, <<requester, currentDay>>,
               Get(_dailyRequestCount, <<requester, currentDay>>, 0) + 1)
    /\ _requestCounter' = _requestCounter
    /\ _totalRequests' = _totalRequests + 1
    /\ requests' = requestAttestationStore(REGISTRY, requestId, verificationData)
    /\ UNCHANGED <<_totalVerified, _totalFailed, _verificationFee, _nftContract, _oracleRelayer,
                   _paused, _roles, nftMintedEvents, fulfilledOutputs>>
    /\ UNCHANGED <<processedAttestations, authorizedCallers>>

\* what a requestVerification that does not revert writes
requestVerificationStore(requester, prompt, model, value) ==
    LET requestId ==
            generateRequestId(requester, prompt, model, now, _requestCounter)
        verificationData ==
            encodeVerificationData(prompt, model, requester, now)
    IN
    /\ _requests' =
           Put(_requests, requestId,
               [requester |-> requester, prompt |-> prompt, model |-> model,
                timestamp |-> now, status |-> Pending,
                outputHash |-> ZERO_BYTES32,
                attestationId |->
                    attestationIdFor(requestId, REGISTRY, verificationData),
                feePaid |-> value, nftMinted |-> FALSE])
    /\ _userRequests' =
           Put(_userRequests, requester,
               Append(Get(_userRequests, requester, <<>>), requestId))
    /\ _requestCount' =
           Put(_requestCount, requester, Get(_requestCount, requester, 0) + 1)
    /\ _lastRequestTime' = Put(_lastRequestTime, requester, now)
    /\ _dailyRequestCount' =
           Put(_dailyRequestCount, <<requester, currentDay>>,
               Get(_dailyRequestCount, <<requester, currentDay>>, 0) + 1)
    /\ _requestCounter' = _requestCounter + 1
    /\ _totalRequests' = _totalRequests + 1
    /\ requests' = requestAttestationStore(REGISTRY, requestId, verificationData)
    /\ UNCHANGED <<_totalVerified, _totalFailed, _verificationFee, _nftContract, _oracleRelayer,
                   _paused, _roles, nftMintedEvents, fulfilledOutputs>>
    /\ UNCHANGED <<processedAttestations, authorizedCallers>>

\* a submission refused by the rate limit or the daily limit is counted for
\* the requester all the same
requestVerification_countsRefused(sender, requester, prompt, model, value, transferOk, switchboardOk) ==
    LET res == requestVerificationResult(requester, prompt, model, value,
                                         transferOk, switchboardOk) IN
    /\ IF res = "ok"
       THEN /\ requestVerificationStore(requester, prompt, model, value)
            /\ treasuryReceipts' = Append(treasuryReceipts, value)
       ELSE IF res \in {"Rate limit exceeded", "Daily limit exceeded"}
       THEN /\ _requestCount' =
                   Put(_requestCount, requester,
                       Get(_requestCount, requester, 0) + 1)
            /\ UNCHANGED <<_requests, _userRequests, _lastRequestTime,
                           _dailyRequestCount, _requestCounter, _totalRequests,
                           _totalVerified, _totalFailed, _verificationFee,
                           _nftContract, _oracleRelayer, _paused, _roles, nftMintedEvents,
                           fulfilledOutputs, treasuryReceipts>>
            /\ UNCHANGED relayerVars
       ELSE UNCHANGED <<registryVars, relayerVars>>
    /\ UNCHANGED <<ledgerVars, callVars, routerVars, feedVars, nftVars>>

\* the writes of the transaction are kept although the transfer to the
\* treasury failed
requestVerification_noRevertOnTransfer(sender, requester, prompt, model, value, transferOk, switchboardOk) ==
    LET res == requestVerificationResult(requester, prompt, model, value,
                                         transferOk, switchboardOk) IN
    /\ IF res = "ok"
       THEN /\ requestVerificationStore(requester, prompt, model, value)
            /\ treasuryReceipts' = Append(treasuryReceipts, value)
       ELSE IF res = "Fee transfer failed"
       THEN /\ requestVerificationStore(requester, prompt, model, value)
            /\ UNCHANGED treasuryReceipts
       ELSE UNCHANGED <<registryVars, relayerVars>>
    /\ UNCHANGED <<ledgerVars, callVars, routerVars, feedVars, nftVars>>

\* the revert of a require undoes every write made before it, the relayer's
\* included
requestVerification(sender, requester, prompt, model, value, transferOk, switchboardOk) ==
    LET res == requestVerificationResult(requester, prompt, model, value,
                                         transferOk, switchboardOk) IN
    /\ IF res = "ok"
       THEN /\ requestVerificationStore(requester, prompt, model, value)
            /\ treasuryReceipts' = Append(treasuryReceipts, value)
       ELSE UNCHANGED <<registryVars, relayerVars>>
    /\ UNCHANGED <<ledgerVars, callVars, routerVars, feedVars, nftVars>>

\* requestVerification up to its call of the treasury: the checks have
\* passed, the request, the activity and the relayer's record are written,
\* the guard is set, and the treasury's code runs next.  saved holds what a
\* revert of the transaction restores.
requestVerificationCallsTreasury(sender, requester, prompt, model, value, switchboardOk) ==
    /\ inFlight = <<>>
    /\ requestVerificationResult(requester, prompt, model, value, TRUE,
                                 switchboardOk) = "ok"
    /\ requestVerificationStore(requester, prompt, model, value)
    /\ _status' = _ENTERED
    /\ inFlight' =
           [value |-> value,
            saved |-> [_requests |-> _requests,
                       _userRequests |-> _userRequests,
                       _requestCount |-> _requestCount,
                       _lastRequestTime |-> _lastRequestTime,
                       _dailyRequestCount |-> _dailyRequestCount,
                       _requestCounter |-> _requestCounter,
                       _totalRequests |-> _totalRequests,
                       _totalVerified |-> _totalVerified,
                       _totalFailed |-> _totalFailed,
                       nftMintedEvents |-> nftMintedEvents,
                       fulfilledOutputs |-> fulfilledOutputs,
                       requests |-> requests,
                       nft |-> nftVars]]
    /\ UNCHANGED <<treasuryReceipts, ledgerVars, routerVars, feedVars, nftVars>>

\* the treasury's code returns to the requestVerification in flight: with
\* success the fee is the treasury's and the guard is released; without, the
\* require reverts the transaction, the calls made meanwhile included
treasuryReturns(success) ==
    /\ inFlight # <<>>
    /\ _status' = _NOT_ENTERED
    /\ inFlight' = <<>>
    /\ IF success
       THEN /\ treasuryReceipts' = Append(treasuryReceipts, inFlight.value)
            /\ UNCHANGED <<_requests, _userRequests, _requestCount,
                           _lastRequestTime, _dailyRequestCount,
                           _requestCounter, _totalRequests, _totalVerified,
                           _totalFailed, nftMintedEvents, fulfilledOutputs,
                           requests, nftVars>>
       ELSE /\ _requests' = inFlight.saved._requests
            /\ _userRequests' = inFlight.saved._userRequests
            /\ _requestCount' = inFlight.saved._requestCount
            /\ _lastRequestTime' = inFlight.saved._lastRequestTime
            /\ _dailyRequestCount' = inFlight.saved._dailyRequestCount
            /\ _requestCounter' = inFlight.saved._requestCounter
            /\ _totalRequests' = inFlight.saved._totalRequests
            /\ _totalVerified' = inFlight.saved._totalVerified
            /\ _totalFailed' = inFlight.saved._totalFailed
            /\ nftMintedEvents' = inFlight.saved.nftMintedEvents
            /\ fulfilledOutputs' = inFlight.saved.fulfilledOutputs
            /\ requests' = inFlight.saved.requests
            /\ _tokenIdCounter' = inFlight.saved.nft[1]
            /\ _owners' = inFlight.saved.nft[2]
            /\ _balances' = inFlight.saved.nft[3]
            /\ _tokenURIs' = inFlight.saved.nft[4]
            /\ _tokenMetadata' = inFlight.saved.nft[5]
            /\ _tokensByOwner' = inFlight.saved.nft[6]
            /\ _tokensByModel' = inFlight.saved.nft[7]
            /\ _baseTokenURI' = inFlight.saved.nft[8]
            /\ _nftRoles' = inFlight.saved.nft[9]
            /\ UNCHANGED treasuryReceipts
    /\ UNCHANGED <<_verificationFee, _nftContract, _paused, _roles,
                   _oracleRelayer, processedAttestations, authorizedCallers>>
    /\ UNCHANGED <<ledgerVars, routerVars, feedVars>>

\* requestVerification(prompt, model), the caller-pays overload: the
\* requester is msgSender(), and neither a role nor the requester is checked
requestVerificationCallerResult(prompt, model, value, transferOk, switchboardOk) ==
    IF _paused THEN "Contract paused"
    ELSE IF _status = _ENTERED THEN "ReentrancyGuard: reentrant call"
    ELSE IF validateVerificationInput(prompt, model) # "ok"
    THEN validateVerificationInput(prompt, model)
    ELSE IF _calculateDynamicFee.result # "ok" THEN _calculateDynamicFee.result
    ELSE IF ~(value >= _calculateDynamicFee.fee) THEN "Insufficient fee"
    ELSE IF ~checkRateLimit(Get(_lastRequestTime, msgSender, 0), now)
    THEN "Rate limit exceeded"
    ELSE IF currentDay = -1 THEN "Invalid timestamp"
    ELSE IF ~checkDailyLimit(Get(_dailyRequestCount, <<msgSender, currentDay>>, 0))
    THEN "Daily limit exceeded"
    ELSE IF requestAttestationResult(
                REGISTRY,
                generateRequestId(msgSender, prompt, model, now, _requestCounter),
                switchboardOk) # "ok"
    THEN requestAttestationResult(
             REGISTRY,
             generateRequestId(msgSender, prompt, model, now, _requestCounter),
             switchboardOk)
    ELSE IF ~transferOk THEN "Fee transfer failed"
    ELSE "ok"

requestVerificationCaller(sender, prompt, model, value, transferOk, switchboardOk) ==
    LET res == requestVerificationCallerResult(prompt, model, value,
                                               transferOk, switchboardOk) IN
    /\ IF res = "ok"
       THEN /\ requestVerificationStore(msgSender, prompt, model, value)
            /\ treasuryReceipts' = Append(treasuryReceipts, value)
       ELSE UNCHANGED <<registryVars, relayerVars>>
    /\ UNCHANGED <<ledgerVars, callVars, routerVars, feedVars, nftVars>>

\* the metadata _mintVerificationNFT hands to the issuer
verificationMetadata(requestId, outputHash, proof) ==
    LET request == Get(_requests, requestId, EmptyRequest) IN
    [prompt |-> request.prompt, model |-> request.model,
     outputHash |-> outputHash, timestamp |-> request.timestamp,
     proofHash |-> <<"keccak256", proof>>, verified |-> TRUE,
     verifier |-> msgSender, requestId |-> requestId]

\* _mintVerificationNFT as fulfillVerification sees it: a call to an address
\* that holds no contract reverts
_mintVerificationNFTResult(requestId, outputHash, proof) ==
    IF _nftContract # NFT_ADDR THEN "revert"
    ELSE mintVerificationNFTResult(
             Get(_requests, requestId, EmptyRequest).requester,
             verificationMetadata(requestId, outputHash, proof))

\* the status of the request is not looked at
fulfillVerificationResult_noStatusCheck(requestId, output, attestationId, proof) ==
    LET request == Get(_requests, requestId, EmptyRequest) IN
    IF ~onlyRole(ORACLE_ROLE) THEN "Access denied"
    ELSE IF request.requester = ZERO THEN "Request not found"
    ELSE IF _oracleRelayer # RELAYER_ADDR THEN "revert"
    ELSE IF ~verifyAttestation(attestationId) THEN "Invalid attestation"
    ELSE IF request.attestationId # attestationId THEN "Attestation mismatch"
    ELSE IF isRequestExpired(request.timestamp, now) THEN "Request expired"
    ELSE _mintVerificationNFTResult(requestId, calculateOutputHash(output), proof)

\* the relayer is not asked whether the attestation is valid
fulfillVerificationResult_noAttestationCheck(requestId, output, attestationId, proof) ==
    LET request == Get(_requests, requestId, EmptyRequest) IN
    IF ~onlyRole(ORACLE_ROLE) THEN "Access denied"
    ELSE IF request.requester = ZERO THEN "Request not found"
    ELSE IF request.status # Pending THEN "Request already fulfilled"
    ELSE IF request.attestationId # attestationId THEN "Attestation mismatch"
    ELSE IF isRequestExpired(request.timestamp, now) THEN "Request expired"
    ELSE _mintVerificationNFTResult(requestId, calculateOutputHash(output), proof)

\* fulfillVerification as its caller sees it: "ok" or the revert (a call to
\* an address that holds no contract reverts)
\* variant: a failure of the mint is swallowed
fulfillVerificationResult_mintIgnored(requestId, output, attestationId, proof) ==
    LET request == Get(_requests, requestId, EmptyRequest) IN
    IF ~onlyRole(ORACLE_ROLE) THEN "Access denied"
    ELSE IF request.requester = ZERO THEN "Request not found"
    ELSE IF request.status # Pending THEN "Request already fulfilled"
    ELSE IF _oracleRelayer # RELAYER_ADDR THEN "revert"
    ELSE IF ~verifyAttestation(attestationId) THEN "Invalid attestation"
    ELSE IF request.attestationId # attestationId THEN "Attestation mismatch"
    ELSE IF isRequestExpired(request.timestamp, now) THEN "Request expired"
    ELSE "ok"

fulfillVerificationResult(requestId, output, attestationId, proof) ==
    LET request == Get(_requests, requestId, EmptyRequest) IN
    IF ~onlyRole(ORACLE_ROLE) THEN "Access denied"
    ELSE IF request.requester = ZERO THEN "Request not found"
    ELSE IF request.status # Pending THEN "Request already fulfilled"
    ELSE IF _oracleRelayer # RELAYER_ADDR THEN "revert"
    ELSE IF ~verifyAttestation(attestationId) THEN "Invalid attestation"
    ELSE IF request.attestationId # attestationId THEN "Attestation mismatch"
    ELSE IF isRequestExpired(request.timestamp, now) THEN "Request expired"
    ELSE _mintVerificationNFTResult(requestId, calculateOutputHash(output), proof)

\* the output hash is computed and not stored
fulfillVerificationStore_noHash(requestId, output) ==
    /\ _requests' =
           [_requests EXCEPT ![requestId].status = Verified,
                             ![requestId].nftMinted = TRUE]
    /\ _totalVerified' = _totalVerified + 1
    /\ nftMintedEvents' =
           Append(nftMintedEvents,
                  <<_requests[requestId].requester, _tokenIdCounter, requestId>>)
    /\ fulfilledOutputs' = Put(fulfilledOutputs, requestId, output)
    /\ UNCHANGED <<_userRequests, _requestCount, _lastRequestTime,
                   _dailyRequestCount, _requestCounter, _totalRequests,
                   _totalFailed, _verificationFee, _nftContract, _oracleRelayer, _paused,
                   _roles, treasuryReceipts>>

\* what a fulfillVerification that does not revert writes in the registry
fulfillVerificationStore(requestId, output) ==
    /\ _requests' =
           [_requests EXCEPT ![requestId].status = Verified,
                             ![requestId].outputHash = calculateOutputHash(output),
                             ![requestId].nftMinted = TRUE]
    /\ _totalVerified' = _totalVerified + 1
    /\ nftMintedEvents' =
           Append(nftMintedEvents,
                  <<_requests[requestId].requester, _tokenIdCounter, requestId>>)
    /\ fulfilledOutputs' = Put(fulfilledOutputs, requestId, output)
    /\ UNCHANGED <<_userRequests, _requestCount, _lastRequestTime,
                   _dailyRequestCount, _requestCounter, _totalRequests,
                   _totalFailed, _verificationFee, _nftContract, _oracleRelayer, _paused,
                   _roles, treasuryReceipts>>

fulfillVerification(sender, requestId, output, attestationId, proof) ==
    LET res == fulfillVerificationResult(requestId, output, attestationId, proof)
    IN
    /\ IF res = "ok"
       THEN /\ fulfillVerificationStore(requestId, output)
            /\ mintVerificationNFTStore(
                   _requests[requestId].requester,
                   verificationMetadata(requestId, calculateOutputHash(output),
                                        proof))
       ELSE UNCHANGED <<registryVars, nftVars>>
    /\ UNCHANGED <<ledgerVars, callVars, routerVars, feedVars, relayerVars>>

\* the status of the request is not looked at
markVerificationFailedResult_anyStatus(requestId) ==
    LET request == Get(_requests, requestId, EmptyRequest) IN
    IF ~onlyRole(ORACLE_ROLE) THEN "Access denied"
    ELSE IF request.requester = ZERO THEN "Request not found"
    ELSE "ok"

markVerificationFailedResult(requestId) ==
    LET request == Get(_requests, requestId, EmptyRequest) IN
    IF ~onlyRole(ORACLE_ROLE) THEN "Access denied"
    ELSE IF request.requester = ZERO THEN "Request not found"
    ELSE IF request.status # Pending THEN "Request already processed"
    ELSE "ok"

\* variant: the failed request is also flagged as having its NFT minted
markVerificationFailedStore_flagsMinted(requestId) ==
    /\ _requests' = [_requests EXCEPT ![requestId].status = Failed,
                                      ![requestId].nftMinted = TRUE]
    /\ _totalFailed' = _totalFailed + 1
    /\ UNCHANGED <<_userRequests, _requestCount, _lastRequestTime,
                   _dailyRequestCount, _requestCounter, _totalRequests,
                   _totalVerified, _verificationFee, _nftContract, _oracleRelayer, _paused,
                   _roles, nftMintedEvents, fulfilledOutputs,
                   treasuryReceipts>>

\* what a markVerificationFailed that does not revert writes
markVerificationFailedStore(requestId) ==
    /\ _requests' = [_requests EXCEPT ![requestId].status = Failed]
    /\ _totalFailed' = _totalFailed + 1
    /\ UNCHANGED <<_userRequests, _requestCount, _lastRequestTime,
                   _dailyRequestCount, _requestCounter, _totalRequests,
                   _totalVerified, _verificationFee, _nftContract, _oracleRelayer, _paused,
                   _roles, nftMintedEvents, fulfilledOutputs,
                   treasuryReceipts>>

markVerificationFailed(sender, requestId, reason) ==
    LET res == markVerificationFailedResult(requestId) IN
    /\ IF res = "ok" THEN markVerificationFailedStore(requestId)
       ELSE UNCHANGED registryVars
    /\ UNCHANGED <<ledgerVars, callVars, routerVars, feedVars, relayerVars, nftVars>>

\* expireRequest is declared by IVeriAISolana; VeriAISolana holds no body for
\* it, and the one here follows the specification's expire
expireRequestResult(requestId) ==
    LET request == Get(_requests, requestId, EmptyRequest) IN
    IF request.requester = ZERO THEN "Request not found"
    ELSE IF ~isRequestExpired(request.timestamp, now) THEN "Not yet expired"
    ELSE IF request.status # Pending THEN "Request already processed"
    ELSE "ok"

expireRequest(sender, requestId) ==
    LET res == expireRequestResult(requestId) IN
    /\ IF res = "ok"
       THEN /\ _requests' = [_requests EXCEPT ![requestId].status = Expired]
            /\ UNCHANGED <<_userRequests, _requestCount, _lastRequestTime,
                           _dailyRequestCount, _requestCounter, _totalRequests,
                           _totalVerified, _totalFailed, _verificationFee,
                           _nftContract, _oracleRelayer, _paused, _roles, nftMintedEvents,
                           fulfilledOutputs, treasuryReceipts>>
       ELSE UNCHANGED registryVars
    /\ UNCHANGED <<ledgerVars, callVars, routerVars, feedVars, relayerVars, nftVars>>

\* the hash of the output is not compared
verifyOutput_statusOnly(requestId, output) ==
    LET request == Get(_requests, requestId, EmptyRequest) IN
    request.status = Verified

\* verifyOutput (a view)
verifyOutput(requestId, output) ==
    LET request == Get(_requests, requestId, EmptyRequest) IN
    IF request.status # Verified THEN FALSE
    ELSE calculateOutputHash(output) = request.outputHash

setNFTContract(sender, _nftContractAddress) ==
    LET res == IF ~onlyRole(DEFAULT_ADMIN_ROLE) THEN "Access denied"
               ELSE IF _nftContractAddress = ZERO THEN "InvalidNFTContract"
               ELSE "ok" IN
    /\ _nftContract' = IF res = "ok" THEN _nftContractAddress ELSE _nftContract
    /\ UNCHANGED <<_requests, _userRequests, _requestCount, _lastRequestTime,
                   _dailyRequestCount, _requestCounter, _totalRequests,
                   _totalVerified, _totalFailed, _verificationFee, _paused,
                   _roles, nftMintedEvents, fulfilledOutputs,
                   treasuryReceipts, _oracleRelayer>>
    /\ UNCHANGED <<ledgerVars, callVars, routerVars, feedVars, relayerVars, nftVars>>

\* AccessManager.grantRole of the registry
grantRole(sender, role, account) ==
    /\ _roles' = IF onlyRole(DEFAULT_ADMIN_ROLE)
                 THEN _roles \cup {<<role, account>>} ELSE _roles
    /\ UNCHANGED <<_requests, _userRequests, _requestCount, _lastRequestTime,
                   _dailyRequestCount, _requestCounter, _totalRequests,
                   _totalVerified, _totalFailed, _verificationFee, _paused,
                   _nftContract, nftMintedEvents, fulfilledOutputs,
                   treasuryReceipts, _oracleRelayer>>
    /\ UNCHANGED <<ledgerVars, callVars, routerVars, feedVars, relayerVars, nftVars>>

\* PausableManager.pause and unpause
pause(sender) ==
    /\ _paused' = IF onlyRole(PAUSER_ROLE) THEN TRUE ELSE _paused
    /\ UNCHANGED <<_requests, _userRequests, _requestCount, _lastRequestTime,
                   _dailyRequestCount, _requestCounter, _totalRequests,
                   _totalVerified, _totalFailed, _verificationFee, _roles,
                   _nftContract, nftMintedEvents, fulfilledOutputs,
                   treasuryReceipts, _oracleRelayer>>
    /\ UNCHANGED <<ledgerVars, callVars, routerVars, feedVars, relayerVars, nftVars>>

unpause(sender) ==
    /\ _paused' = IF onlyRole(PAUSER_ROLE) THEN FALSE ELSE _paused
    /\ UNCHANGED <<_requests, _userRequests, _requestCount, _lastRequestTime,
                   _dailyRequestCount, _requestCounter, _totalRequests,
                   _totalVerified, _totalFailed, _verificationFee, _roles,
                   _nftContract, nftMintedEvents, fulfilledOutputs,
                   treasuryReceipts, _oracleRelayer>>
    /\ UNCHANGED <<ledgerVars, callVars, routerVars, feedVars, relayerVars, nftVars>>

\* setOracleRelayer: the registry calls the relayer at a new address
setOracleRelayer(sender, newOracleRelayer) ==
    LET res == IF ~onlyRole(DEFAULT_ADMIN_ROLE) THEN "Access denied"
               ELSE IF newOracleRelayer = ZERO THEN "Invalid oracle relayer"
               ELSE "ok" IN
    /\ _oracleRelayer' = IF res = "ok" THEN newOracleRelayer ELSE _oracleRelayer
    /\ UNCHANGED <<_requests, _userRequests, _requestCount, _lastRequestTime,
                   _dailyRequestCount, _requestCounter, _totalRequests,
                   _totalVerified, _totalFailed, _verificationFee, _paused,
                   _roles, nftMintedEvents, fulfilledOutputs,
                   treasuryReceipts, _nftContract>>
    /\ UNCHANGED <<ledgerVars, callVars, routerVars, feedVars, relayerVars, nftVars>>

\* ------------------------------------------------------------------------
\* Inputs and the specification of the registry with its collaborators
\* ------------------------------------------------------------------------
Callers == {ADMIN, "alice"}
PromptOK == "Explain PoS"
ModelOK == "gpt-4"
PromptTooLong == Repeat("x", MAX_PROMPT_LENGTH + 1)
ModelTooLong == Repeat("m", MAX_MODEL_LENGTH + 1)
\* less than any fee, the converted fee at price 20, the static fee, and more
\* than the maximum
Values == {100000, 500000, 1000000, 1000000001}
Outputs == {"Proof-of-Stake is...", "altered"}
Proofs == {<<>>, <<"proof">>}

\* the submissions tried: every well-formed one, and each way of being
\* ill-formed
Submissions ==
    [requester : Users, prompt : {PromptOK}, model : {ModelOK},
     value : Values, transferOk : BOOLEAN, switchboardOk : {TRUE}]
    \cup
    [requester : {"alice"}, prompt : {PromptOK}, model : {ModelOK},
     value : {1000000}, transferOk : BOOLEAN, switchboardOk : {FALSE}]
    \cup
    [requester : {"alice"}, prompt : {"", PromptTooLong}, model : {ModelOK, ""},
     value : {500000, 1000000}, transferOk : {TRUE}, switchboardOk : {TRUE}]
    \cup
    [requester : {"alice", ZERO}, prompt : {PromptOK},
     model : {"", ModelTooLong, ModelOK},
     value : {1000000}, transferOk : {TRUE}, switchboardOk : {TRUE}]

\* the submissions for "alice" that validation refuses: a bad prompt, a bad
\* model or less than any fee
IllFormedSubmissions ==
    {c \in [requester : {"alice"}, prompt : {PromptOK, "", PromptTooLong},
            model : {ModelOK, "", ModelTooLong}, value : {100000, INITIAL_FEE},
            transferOk : {TRUE}, switchboardOk : {TRUE}] :
        \/ c.prompt # PromptOK
        \/ c.model # ModelOK
        \/ c.value # INITIAL_FEE}

RequestIds == DOMAIN _requests \cup {ZERO_BYTES32}
AttestationIds ==
    {requests[id].attestationId : id \in DOMAIN requests} \cup {ZERO_BYTES32}

\* the life of a request: well-formed submissions at the static fee, the
\* relayer's and the registry's fulfilment, failure and expiry
Next ==
    \/ \E d \in {1, REQUEST_TIMEOUT} : blockNumber < MaxBlock /\ Tick(d)
    \/ authorizeOracleCaller(RELAYER_OWNER, REGISTRY)
    \/ setNFTContract(ADMIN, NFT_ADDR)
    \/ \E r \in Users :
          /\ _requestCounter < MaxRequests
          /\ requestVerification(ADMIN, r, PromptOK, ModelOK, INITIAL_FEE, TRUE, TRUE)
    \/ \E s \in {RELAYER_OWNER, "alice"}, id \in RequestIds, pr \in Proofs :
          fulfillAttestation(s, id, <<"result">>, pr)
    \/ \E id \in RequestIds, o \in Outputs, a \in AttestationIds :
          fulfillVerification(ADMIN, id, o, a, <<"proof">>)
    \/ \E id \in RequestIds : markVerificationFailed(ADMIN, id, "reason")
    \/ \E id \in RequestIds : expireRequest("alice", id)

Spec == Init /\ [][Next]_vars

\* admission: every kind of submission, within the rate-limit window and at
\* its end, at the static and at the converted fee
NextAdmission ==
    \/ \E d \in {1, RATE_LIMIT_WINDOW - 1} : blockNumber < MaxBlock /\ Tick(d)
    \/ \E p \in Prices : PythUpdate(p)
    \/ \E s \in {RELAYER_OWNER, "alice"} : authorizeOracleCaller(s, REGISTRY)
    \/ \E s \in Callers, c \in Submissions :
          /\ _requestCounter < MaxRequests
          /\ requestVerification(s, c.requester, c.prompt, c.model, c.value,
                                 c.transferOk, c.switchboardOk)
    \/ \E s \in Callers, v \in Values, ok \in BOOLEAN :
          /\ _requestCounter < MaxRequests
          /\ requestVerificationCaller(s, PromptOK, ModelOK, v, ok, TRUE)

SpecAdmission == Init /\ [][NextAdmission]_vars

\* the daily quota: one requester submits as often as the rate limit allows,
\* once more than the quota
NextDaily ==
    \/ authorizeOracleCaller(RELAYER_OWNER, REGISTRY)
    \/ /\ Get(_lastRequestTime, "alice", 0) = now
       /\ Tick(RATE_LIMIT_WINDOW)
    \/ /\ _requestCounter < MAX_DAILY_REQUESTS + 1
       /\ requestVerification(ADMIN, "alice", PromptOK, ModelOK, INITIAL_FEE,
                              TRUE, TRUE)
    \/ \E c \in IllFormedSubmissions :
          requestVerification(ADMIN, c.requester, c.prompt, c.model, c.value,
                              c.transferOk, c.switchboardOk)

SpecDaily == Init /\ [][NextDaily]_vars

\* the prices and timestamps Pyth may hold: a negative, a zero and a positive
\* price; a timestamp just past the maximum age, at it, at the block's time
\* and ahead of it
FeedPrices == {-1, 0, 20}
FeedTimestamps == {now - PRICE_MAX_AGE - 1, now - PRICE_MAX_AGE, now, now + 1}

\* the fee: submissions at the converted and at the static fee under every
\* condition of the price feed
NextFee ==
    \/ blockNumber < MaxBlock /\ Tick(1)
    \/ \E p \in FeedPrices, ts \in FeedTimestamps : PythPublish(p, ts)
    \/ \E down \in BOOLEAN : PythOutage(down)
    \/ authorizeOracleCaller(RELAYER_OWNER, REGISTRY)
    \/ \E r \in Users, v \in {500000, INITIAL_FEE} :
          /\ _requestCounter < MaxRequests
          /\ requestVerification(ADMIN, r, PromptOK, ModelOK, v, TRUE, TRUE)

SpecFee == Init /\ [][NextFee]_vars

\* the relayer called directly: by its owner, by alice, whom the owner
\* authorizes and revokes, and by bob, whom nobody authorizes
RelayerCallers == {RELAYER_OWNER, "alice", "bob"}
RelayerRequestIds == {"req1", "req2"}
Payloads == {"payload"}

NextRelayer ==
    \/ blockNumber < MaxBlock /\ Tick(1)
    \/ \E s \in {RELAYER_OWNER, "bob"}, c \in {RELAYER_OWNER, "alice"} :
          authorizeOracleCaller(s, c)
    \/ \E s \in {RELAYER_OWNER, "bob"}, c \in {RELAYER_OWNER, "alice"} :
          revokeOracleCaller(s, c)
    \/ \E s \in RelayerCallers, id \in RelayerRequestIds, d \in Payloads :
          \E ok \in BOOLEAN : requestAttestation(s, id, d, ok)
    \/ \E s \in RelayerCallers, id \in RelayerRequestIds, pr \in Proofs :
          fulfillAttestation(s, id, <<"result">>, pr)

SpecRelayer == Init /\ [][NextRelayer]_vars

\* submission and fulfilment while the admin moves the registry between the
\* relayer and an address that holds no contract
NextReplace ==
    \/ blockNumber < MaxBlock /\ Tick(1)
    \/ authorizeOracleCaller(RELAYER_OWNER, REGISTRY)
    \/ setNFTContract(ADMIN, NFT_ADDR)
    \/ \E a \in {RELAYER_ADDR, VACANT_ADDR, ZERO} : setOracleRelayer(ADMIN, a)
    \/ \E r \in Users : /\ _requestCounter < MaxRequests
                        /\ requestVerification(ADMIN, r, PromptOK, ModelOK, INITIAL_FEE, TRUE, TRUE)
    \/ \E id \in RequestIds, pr \in Proofs : fulfillAttestation(RELAYER_OWNER, id, <<"result">>, pr)
    \/ \E id \in RequestIds, o \in Outputs, a \in AttestationIds : fulfillVerification(ADMIN, id, o, a, <<"proof">>)

SpecReplace == Init /\ [][NextReplace]_vars

\* certificates minted by fulfilments, a second or a validity period after
\* the submission
NextValidity ==
    \/ \E d \in {1, VALIDITY_PERIOD - 1} : blockNumber < MaxBlock /\ Tick(d)
    \/ authorizeOracleCaller(RELAYER_OWNER, REGISTRY)
    \/ setNFTContract(ADMIN, NFT_ADDR)
    \/ \E r \in Users : /\ _requestCounter < MaxRequests
                        /\ requestVerification(ADMIN, r, PromptOK, ModelOK, INITIAL_FEE, TRUE, TRUE)
    \/ \E id \in RequestIds : fulfillAttestation(RELAYER_OWNER, id, <<"result">>, <<"proof">>)
    \/ \E id \in RequestIds, o \in Outputs : fulfillVerification(ADMIN, id, o, Get(_requests, id, EmptyRequest).attestationId, <<"proof">>)

SpecValidity == Init /\ [][NextValidity]_vars

\* a treasury whose code calls the registry back while it receives the fee
NextReentrancy ==
    \/ inFlight = <<>> /\ blockNumber < MaxBlock /\ Tick(1)
    \/ inFlight = <<>> /\ authorizeOracleCaller(RELAYER_OWNER, REGISTRY)
    \/ inFlight = <<>> /\ setNFTContract(ADMIN, NFT_ADDR)
    \/ \E id \in RequestIds : inFlight = <<>> /\ fulfillAttestation(RELAYER_OWNER, id, <<"result">>, <<"proof">>)
    \/ \E r \in Users : /\ _requestCounter < MaxRequests
                       /\ requestVerificationCallsTreasury(ADMIN, r, PromptOK, ModelOK, INITIAL_FEE, TRUE)
    \/ \E ok \in BOOLEAN : treasuryReturns(ok)
    \/ \E r \in Users : /\ inFlight # <<>>
                       /\ requestVerification(ADMIN, r, PromptOK, ModelOK, INITIAL_FEE, TRUE, TRUE)
    \/ \E id \in RequestIds, o \in Outputs : fulfillVerification(ADMIN, id, o, Get(_requests, id, EmptyRequest).attestationId, <<"proof">>)
    \/ \E id \in RequestIds : markVerificationFailed(ADMIN, id, "reason")

SpecReentrancy == Init /\ [][NextReentrancy]_vars

\* submissions against a relayer that may refuse them: the registry is not
\* authorised at first, the relayer's owner takes the identifier of the next
\* request first, the Switchboard call fails
NextAttest ==
    \/ blockNumber < MaxBlock /\ Tick(1)
    \/ authorizeOracleCaller(RELAYER_OWNER, REGISTRY)
    \/ \E r \in {"alice"} :
          /\ _requestCounter < MaxRequests
          /\ requestAttestation(RELAYER_OWNER, generateRequestId(r, PromptOK, ModelOK, now, _requestCounter), <<"payload">>, TRUE)
    \/ \E r \in Users, ok \in BOOLEAN :
          /\ _requestCounter < MaxRequests
          /\ requestVerification(ADMIN, r, PromptOK, ModelOK, INITIAL_FEE, TRUE, ok)
    \/ \E ok \in BOOLEAN :
          /\ _requestCounter < MaxRequests
          /\ requestVerificationCaller(ADMIN, PromptOK, ModelOK, INITIAL_FEE, TRUE, ok)

SpecAttest == Init /\ [][NextAttest]_vars

\* the issuer on its own: every caller may reach its functions
Metadatas ==
    [prompt : {PromptOK, ""}, model : {ModelOK, "claude"},
     outputHash : {<<"hash">>}, timestamp : {DEPLOYMENT_TIME},
     proofHash : {<<"keccak256", <<"proof">>>>}, verified : {TRUE},
     verifier : {ADMIN}, requestId : {<<"r1">>, <<"r2">>}]

NextIssuer ==
    \/ \E s \in Callers, r \in Users \cup {ZERO}, md \in Metadatas :
          /\ _tokenIdCounter < MaxTokens
          /\ mintVerificationNFT(s, r, md)
    \/ \E s \in Callers, t \in 0..MaxTokens :
          updateTokenMetadata(s, t, "updated")
    \/ \E s \in Callers, u \in {"base/", "other/"} : setBaseTokenURI(s, u)
    \/ \E s \in Callers, a \in {"alice"} : nftGrantRole(s, MINTER_ROLE, a)

SpecIssuer == Init /\ [][NextIssuer]_vars

\* ------------------------------------------------------------------------
\* Properties of the life of a request (Spec)
\* ------------------------------------------------------------------------
StoredIds == DOMAIN _requests

\* the fulfilments tried on a request
Fulfilments == [output : Outputs, attestationId : AttestationIds]

\* C1: every request starts in Pending, no request is ever removed, and once
\* the status of a request is Verified, Failed or Expired no submit, fulfil,
\* mark-failed or expire call changes it again.
C1_TerminalStatusIsFinal ==
    [][/\ \A id \in StoredIds :
             /\ id \in DOMAIN _requests'
             /\ _requests[id].status # Pending
                    => _requests'[id].status = _requests[id].status
       /\ \A id \in DOMAIN _requests' \ StoredIds :
             _requests'[id].status = Pending]_vars

\* a Verified and an Expired request, at a time when the Verified one is past
\* its timeout too: only its status keeps expire from acting on it
C1_Witness ==
    \E a, b \in StoredIds :
        /\ _requests[a].status = Verified
        /\ _requests[b].status = Expired
        /\ isRequestExpired(_requests[a].timestamp, now)
        /\ markVerificationFailedResult(a) = "Request already processed"
        /\ expireRequestResult(a) = "Request already processed"

\* C2: for every stored request, outputHash is set exactly when the status is
\* Verified, and nftMinted implies that the status is Verified.
C2_HashIffVerified ==
    \A id \in StoredIds :
        /\ (_requests[id].outputHash # ZERO_BYTES32)
               <=> (_requests[id].status = Verified)
        /\ _requests[id].nftMinted => _requests[id].status = Verified

\* a Verified request with its hash and certificate, next to a Failed one
C2_Witness ==
    \E a, b \in StoredIds :
        /\ _requests[a].status = Verified
        /\ _requests[a].nftMinted
        /\ _requests[a].outputHash = calculateOutputHash(fulfilledOutputs[a])
        /\ _requests[b].status = Failed

\* the certificates minted for a request, and the NFTMinted events for it
CertificatesOf(id) ==
    {t \in DOMAIN _tokenMetadata : _tokenMetadata[t].requestId = id}
MintEventsOf(id) ==
    {i \in 1..Len(nftMintedEvents) : nftMintedEvents[i][3] = id}

\* C3: for every request, at most one fulfil has succeeded (the count of
\* successful fulfils is the count of Verified requests), exactly one
\* certificate was minted for it if it is Verified and none otherwise, and
\* every further fulfil of a Verified request, whatever its arguments, fails
\* as already fulfilled.
C3_OneFulfilPerRequest ==
    /\ _totalVerified =
           Cardinality({id \in StoredIds : _requests[id].status = Verified})
    /\ \A id \in StoredIds :
          LET n == IF _requests[id].status = Verified THEN 1 ELSE 0 IN
          /\ Cardinality(CertificatesOf(id)) = n
          /\ Cardinality(MintEventsOf(id)) = n
          /\ _requests[id].status = Verified =>
                \A f \in Fulfilments :
                    fulfillVerificationResult(id, f.output, f.attestationId,
                                              <<"proof">>)
                        = "Request already fulfilled"

\* a Verified request whose attestation is still valid and whose timeout has
\* not passed: the fulfil that succeeded, called again, is stopped by the
\* status alone
C3_Witness ==
    \E id \in StoredIds :
        /\ _requests[id].status = Verified
        /\ verifyAttestation(_requests[id].attestationId)
        /\ ~isRequestExpired(_requests[id].timestamp, now)
        /\ Cardinality(CertificatesOf(id)) = 1
        /\ fulfillVerificationResult(id, fulfilledOutputs[id],
                                     _requests[id].attestationId, <<"proof">>)
               = "Request already fulfilled"

\* C7 as stated: a fulfil of a Pending request after createdAt + 24h fails
\* as expired whatever the attestationId, and one at createdAt + 24h or
\* before is not rejected as expired.
C7_ExpiredWhateverAttestation ==
    \A id \in StoredIds : \A f \in Fulfilments :
        LET res == fulfillVerificationResult(id, f.output, f.attestationId,
                                             <<"proof">>) IN
        _requests[id].status = Pending =>
            IF now > _requests[id].timestamp + REQUEST_TIMEOUT
            THEN res = "Request expired"
            ELSE res # "Request expired"

\* C7: a fulfil of a Pending request after createdAt + 24h always fails: as
\* expired when the attestationId is valid at the relayer and is the stored
\* one, as an invalid attestation when the relayer does not hold it valid,
\* as an attestation mismatch when it is valid and not the stored one; a
\* fulfil at createdAt + 24h or before is not rejected as expired.
C7_ExpiredFulfilFails ==
    \A id \in StoredIds : \A f \in Fulfilments :
        LET res == fulfillVerificationResult(id, f.output, f.attestationId,
                                             <<"proof">>) IN
        _requests[id].status = Pending =>
            IF now > _requests[id].timestamp + REQUEST_TIMEOUT
            THEN res = IF f.attestationId \notin processedAttestations
                       THEN "Invalid attestation"
                       ELSE IF f.attestationId # _requests[id].attestationId
                       THEN "Attestation mismatch"
                       ELSE "Request expired"
            ELSE res # "Request expired"

\* a Pending request past its timeout whose attestation the relayer holds
\* valid, next to another valid attestation
C7_Witness ==
    \E id \in StoredIds :
        /\ _requests[id].status = Pending
        /\ now > _requests[id].timestamp + REQUEST_TIMEOUT
        /\ _requests[id].attestationId \in processedAttestations
        /\ Cardinality(processedAttestations) >= 2
        /\ _nftContract = NFT_ADDR

\* C8: verifyOutput(requestId, output) is true exactly when the request is
\* stored, its status is Verified and output is the output it was fulfilled
\* with; it is false for an unknown id, for a request that is not Verified
\* and for every other output.  (verifyOutput is a view: it writes nothing.)
C8_VerifyOutput ==
    \A id \in RequestIds \cup {<<"unknown">>} :
        \A output \in Outputs \cup {""} :
            verifyOutput(id, output) <=>
                /\ id \in StoredIds
                /\ _requests[id].status = Verified
                /\ output = fulfilledOutputs[id]

\* a Verified request that verifies the output it was fulfilled with and no
\* altered one, next to a request that is not Verified
C8_Witness ==
    \E a, b \in StoredIds :
        /\ _requests[a].status = Verified
        /\ verifyOutput(a, fulfilledOutputs[a])
        /\ \E output \in Outputs : ~verifyOutput(a, output)
        /\ _requests[b].status # Verified
        /\ \A output \in Outputs : ~verifyOutput(b, output)

\* C14 as stated: a fulfil or a mark-failed called by an account that does
\* not hold the oracle role fails, and changes the status of no request.
\* (onlyRole asks msgSender(), which is _admin whoever calls, so the step of
\* such a call is the step of the admin's.)
C14_OracleRoleOfTheCaller ==
    [][\A s \in Callers :
          ~hasRole(ORACLE_ROLE, s) =>
              /\ \A id \in StoredIds :
                     /\ markVerificationFailedResult(id) # "ok"
                     /\ markVerificationFailed(s, id, "reason")
                            => _requests'[id].status = _requests[id].status
              /\ \A id \in StoredIds : \A f \in Fulfilments :
                     /\ fulfillVerificationResult(id, f.output,
                                                  f.attestationId, <<"proof">>)
                            # "ok"
                     /\ fulfillVerification(s, id, f.output, f.attestationId,
                                            <<"proof">>)
                            => _requests'[id].status = _requests[id].status]_vars

\* C21: markVerificationFailed fails "Request not found" for a requestId
\* without a request and "Request already processed" for a request that is
\* not Pending; a call that succeeds sets the status to Failed and changes no
\* other field of the request, and mints nothing: a Failed request has an
\* empty outputHash, nftMinted false and no certificate.
C21_MarkFailed ==
    /\ [](\A id \in RequestIds :
            /\ markVerificationFailedResult(id) =
                   IF id \notin StoredIds THEN "Request not found"
                   ELSE IF _requests[id].status # Pending
                   THEN "Request already processed"
                   ELSE "ok"
            /\ Get(_requests, id, EmptyRequest).status = Failed
                   => /\ _requests[id].outputHash = ZERO_BYTES32
                      /\ ~_requests[id].nftMinted
                      /\ CertificatesOf(id) = {}
                      /\ MintEventsOf(id) = {})
    /\ [][\A id \in StoredIds :
            /\ markVerificationFailedResult(id) = "ok"
            /\ markVerificationFailed(ADMIN, id, "reason")
            => /\ _requests' =
                      [_requests EXCEPT ![id] =
                           [_requests[id] EXCEPT !.status = Failed]]
               /\ UNCHANGED <<nftVars, nftMintedEvents, fulfilledOutputs>>
        ]_vars

\* one request marked failed while its attestation was valid and the issuer
\* was set, another already Verified and refused
C21_Witness ==
    /\ _nftContract = NFT_ADDR
    /\ markVerificationFailedResult(ZERO_BYTES32) = "Request not found"
    /\ \E id \in StoredIds, other \in StoredIds :
           /\ _requests[id].status = Failed
           /\ verifyAttestation(_requests[id].attestationId)
           /\ _requests[other].status = Verified
           /\ markVerificationFailedResult(other) = "Request already processed"

\* C22: expireRequest, whoever calls it, fails "Request not found" for a
\* requestId without a request, "Not yet expired" unless the block time is
\* past the request's timestamp + 24h, "Request already processed" unless
\* the request is Pending, and otherwise makes the request Expired; every
\* fulfil of an Expired request fails.
C22_Expire ==
    /\ [](\A id \in RequestIds :
            /\ expireRequestResult(id) =
                   IF id \notin StoredIds THEN "Request not found"
                   ELSE IF ~(now > _requests[id].timestamp + REQUEST_TIMEOUT)
                   THEN "Not yet expired"
                   ELSE IF _requests[id].status # Pending
                   THEN "Request already processed"
                   ELSE "ok"
            /\ Get(_requests, id, EmptyRequest).status = Expired
                   => \A f \in Fulfilments :
                          fulfillVerificationResult(id, f.output,
                                                    f.attestationId,
                                                    <<"proof">>) # "ok")
    /\ [][\A id \in StoredIds : \A s \in Callers :
            /\ expireRequestResult(id) = "ok"
            /\ expireRequest(s, id)
            => _requests' =
                   [_requests EXCEPT ![id] =
                        [_requests[id] EXCEPT !.status = Expired]]
        ]_vars

\* a request expired after its timeout although its attestation was valid
\* and the issuer set, next to a Pending one exactly at its timeout
C22_Witness ==
    /\ _nftContract = NFT_ADDR
    /\ \E id \in StoredIds, other \in StoredIds :
           /\ _requests[id].status = Expired
           /\ now > _requests[id].timestamp + REQUEST_TIMEOUT
           /\ verifyAttestation(_requests[id].attestationId)
           /\ _requests[other].status = Pending
           /\ now = _requests[other].timestamp + REQUEST_TIMEOUT
           /\ expireRequestResult(other) = "Not yet expired"

\* the Pending requests whose timeout has passed
TimedOut == {id \in StoredIds : /\ _requests[id].status = Pending
                                /\ now > _requests[id].timestamp + REQUEST_TIMEOUT}

\* C23 as stated: the status of a Pending request whose timeout has passed
\* changes only in a step of expireRequest, never in one of
\* fulfillVerification or markVerificationFailed.
C23_OnlyExpireUnwinds ==
    [][\A id \in TimedOut :
          _requests'[id].status # _requests[id].status
              => \E s \in Callers : expireRequest(s, id)]_vars

\* ------------------------------------------------------------------------
\* Properties of admission (SpecAdmission, SpecDaily)
\* ------------------------------------------------------------------------
\* the accounts requests are stored for: the users the backend submits for,
\* and msgSender() of the caller-pays overload
Requesters == Users \cup {msgSender}

\* the requests stored for a requester
RequestsOf(r) == {id \in StoredIds : _requests[id].requester = r}

\* a well-formed submission for requester r paying value, as its caller sees
\* it when the treasury and the Switchboard oracle accept
SubmitResult(r, value) ==
    requestVerificationResult(r, PromptOK, ModelOK, value, TRUE, TRUE)

\* C4 as stated: no request is stored whose feePaid is below the minimum fee
\* or above the maximum fee.
C4_FeeOutOfRangeRejected ==
    \A id \in StoredIds : validateFee(_requests[id].feePaid)

\* C4: whenever the required fee is computed (the converted fee while the
\* price is fresh, the static fee otherwise), a well-formed submit paying
\* less fails as an insufficient fee and a submit paying at least the
\* required fee, above the maximum fee included, is not rejected for its
\* fee; every request created has feePaid at or above the fee required when
\* it was created.
C4_FeeAtLeastRequired ==
    /\ [](_calculateDynamicFee.result = "ok" =>
            \A r \in Users, value \in Values :
                /\ value < _calculateDynamicFee.fee
                       => SubmitResult(r, value) = "Insufficient fee"
                /\ value >= _calculateDynamicFee.fee
                       => SubmitResult(r, value) # "Insufficient fee"
                /\ value < _calculateDynamicFee.fee
                       => requestVerificationCallerResult(
                              PromptOK, ModelOK, value, TRUE, TRUE)
                              = "Insufficient fee")
    /\ [][\A id \in DOMAIN _requests' \ StoredIds :
             /\ _calculateDynamicFee.result = "ok"
             /\ _requests'[id].feePaid >= _calculateDynamicFee.fee]_vars

\* a request accepted at more than the maximum fee and another accepted at
\* less than the minimum fee (the converted fee), while a submit at less
\* than the required fee is refused
C4_Witness ==
    /\ \E a, b \in StoredIds :
          /\ _requests[a].feePaid > MAX_VERIFICATION_FEE
          /\ _requests[b].feePaid < MIN_VERIFICATION_FEE
    /\ \E r \in Users, value \in Values :
          SubmitResult(r, value) = "Insufficient fee"

\* C5: for every requester, a well-formed submit less than 60 seconds after
\* the requester's last accepted one fails as rate-limited, one at 60 seconds
\* or later is not rejected by the rate limit, and any two requests stored
\* for one requester were created at least 60 seconds apart.
C5_RateLimit ==
    /\ \A r \in Users :
          r \in DOMAIN _lastRequestTime =>
              IF now < _lastRequestTime[r] + RATE_LIMIT_WINDOW
              THEN SubmitResult(r, INITIAL_FEE) = "Rate limit exceeded"
              ELSE SubmitResult(r, INITIAL_FEE) # "Rate limit exceeded"
    /\ msgSender \in DOMAIN _lastRequestTime =>
          LET res == requestVerificationCallerResult(
                         PromptOK, ModelOK, INITIAL_FEE, TRUE, TRUE) IN
          IF now < _lastRequestTime[msgSender] + RATE_LIMIT_WINDOW
          THEN res = "Rate limit exceeded"
          ELSE res # "Rate limit exceeded"
    /\ \A r \in Requesters : \A a, b \in RequestsOf(r) :
          a # b /\ _requests[a].timestamp <= _requests[b].timestamp =>
              _requests[b].timestamp
                  >= _requests[a].timestamp + RATE_LIMIT_WINDOW

\* a requester with two requests, the second accepted exactly 60 seconds
\* after the first, while another requester is inside the window
C5_Witness ==
    /\ \E r \in Users : \E a, b \in RequestsOf(r) :
          _requests[b].timestamp = _requests[a].timestamp + RATE_LIMIT_WINDOW
    /\ \E r \in Users :
          /\ r \in DOMAIN _lastRequestTime
          /\ SubmitResult(r, INITIAL_FEE) = "Rate limit exceeded"

\* the requests stored for requester r that were created on day d
RequestsOn(r, d) ==
    {id \in RequestsOf(r) :
        timestampToDay(_requests[id].timestamp, DEPLOYMENT_TIME) = d}

\* C6: for every requester and every day, the requests accepted on that day
\* are counted exactly and are never more than 100; once the rate limit is
\* satisfied, a well-formed submit succeeds while fewer than 100 were
\* accepted on the current day (so the 100th succeeds) and fails on the
\* daily limit once 100 were (so the 101st fails).
C6_DailyLimit ==
    \A r \in Users :
        LET count == Get(_dailyRequestCount, <<r, currentDay>>, 0) IN
        /\ count = Cardinality(RequestsOn(r, currentDay))
        /\ count <= MAX_DAILY_REQUESTS
        /\ (/\ REGISTRY \in authorizedCallers
            /\ now >= Get(_lastRequestTime, r, 0) + RATE_LIMIT_WINDOW) =>
               SubmitResult(r, INITIAL_FEE) =
                   IF count < MAX_DAILY_REQUESTS THEN "ok"
                   ELSE "Daily limit exceeded"

\* 100 requests accepted today for a requester whose rate limit is satisfied:
\* the 101st is the one refused
C6_Witness ==
    \E r \in Users :
        /\ Cardinality(RequestsOn(r, currentDay)) = MAX_DAILY_REQUESTS
        /\ now >= Get(_lastRequestTime, r, 0) + RATE_LIMIT_WINDOW
        /\ SubmitResult(r, INITIAL_FEE) = "Daily limit exceeded"

\* the reasons validation and admission refuse a submit for
Refusals ==
    {"Invalid prompt length", "Invalid model length", "Insufficient fee",
     "Rate limit exceeded", "Daily limit exceeded"}

\* the requester's activity and the registry's requests and counters
activityVars == <<_requests, _userRequests, _requestCount, _lastRequestTime,
                  _dailyRequestCount, _requestCounter, _totalRequests>>

\* C11: a submit refused for its prompt or model, for its fee, by the rate
\* limit or by the daily limit changes nothing in the registry; every
\* request added passed, in the state before, the input validation, the fee
\* bound, the rate limit and the daily limit; and a step that adds no request
\* leaves the requests, every requester's last-request time, daily count and
\* total count and the counters as they were.
C11_RefusedSubmitChangesNothing ==
    [][/\ \A c \in IllFormedSubmissions \cup Submissions :
             (/\ requestVerificationResult(c.requester, c.prompt, c.model,
                                           c.value, c.transferOk,
                                           c.switchboardOk) \in Refusals
              /\ requestVerification(ADMIN, c.requester, c.prompt, c.model,
                                     c.value, c.transferOk, c.switchboardOk))
                 => UNCHANGED <<registryVars, relayerVars>>
       /\ \A id \in DOMAIN _requests' \ StoredIds :
             LET q == _requests'[id] IN
             /\ validateVerificationInput(q.prompt, q.model) = "ok"
             /\ _calculateDynamicFee.result = "ok"
             /\ q.feePaid >= _calculateDynamicFee.fee
             /\ now >= Get(_lastRequestTime, q.requester, 0) + RATE_LIMIT_WINDOW
             /\ Get(_dailyRequestCount, <<q.requester, currentDay>>, 0)
                    < MAX_DAILY_REQUESTS
       /\ DOMAIN _requests' = StoredIds => UNCHANGED activityVars]_vars

\* the quota is used up and the rate limit satisfied: a well-formed submit is
\* refused by the daily limit, one with a bad prompt, a bad model or too low
\* a fee by validation, with the requester's 100 requests on record
C11_Witness ==
    /\ Get(_requestCount, "alice", 0) = MAX_DAILY_REQUESTS
    /\ SubmitResult("alice", INITIAL_FEE) = "Daily limit exceeded"
    /\ SubmitResult("alice", 100000) = "Insufficient fee"
    /\ \E c \in IllFormedSubmissions :
          requestVerificationResult(c.requester, c.prompt, c.model, c.value,
                                    c.transferOk, c.switchboardOk)
              = "Invalid prompt length"
    /\ \E c \in IllFormedSubmissions :
          requestVerificationResult(c.requester, c.prompt, c.model, c.value,
                                    c.transferOk, c.switchboardOk)
              = "Invalid model length"

\* the rate limit and the daily limit let requester r submit, and the relayer
\* takes the registry's calls
Admitted(r) ==
    /\ REGISTRY \in authorizedCallers
    /\ now >= Get(_lastRequestTime, r, 0) + RATE_LIMIT_WINDOW
    /\ Get(_dailyRequestCount, <<r, currentDay>>, 0) < MAX_DAILY_REQUESTS

\* C12 as stated: when the price is not positive, the price query fails or
\* the price's timestamp is unusable (older than an hour, or ahead of the
\* block's time), a well-formed submit that pays the static fee and meets
\* the rate and daily limits is accepted.
C12_BadPriceFallsBackToStaticFee ==
    \A r \in Users :
        (/\ \/ pythFeed.reverts
            \/ pythFeed.price <= 0
            \/ pythFeed.timestamp > now
            \/ now - pythFeed.timestamp > PRICE_MAX_AGE
         /\ Admitted(r))
            => SubmitResult(r, _verificationFee) = "ok"

\* C13: while the price query answers, a price whose timestamp is more than
\* 3600 seconds before the block's time makes the required fee the static
\* fee, whatever the price; a positive price at most 3600 seconds old makes
\* it the converted fee, 10^8 / (10 * price) in units of 10^9 wei; and a
\* well-formed submit is refused for its fee exactly when it pays less.
C13_StaleFallsBack ==
    ~pythFeed.reverts =>
        /\ now - pythFeed.timestamp > PRICE_MAX_AGE =>
               /\ _calculateDynamicFee = [result |-> "ok", fee |-> _verificationFee]
               /\ \A r \in Users, v \in Values :
                      SubmitResult(r, v) = "Insufficient fee"
                          <=> v < _verificationFee
        /\ (/\ pythFeed.timestamp <= now
            /\ now - pythFeed.timestamp <= PRICE_MAX_AGE
            /\ pythFeed.price > 0) =>
               /\ _calculateDynamicFee =
                      [result |-> "ok",
                       fee |-> (100 * 1000000) \div (10 * pythFeed.price)]
               /\ \A r \in Users, v \in Values :
                      SubmitResult(r, v) = "Insufficient fee"
                          <=> v < (100 * 1000000) \div (10 * pythFeed.price)

\* a request was accepted at the converted fee, below the static one, and the
\* price has since become stale: the same payment is now refused
C13_Witness ==
    /\ ~pythFeed.reverts
    /\ now - pythFeed.timestamp > PRICE_MAX_AGE
    /\ pythFeed.price > 0
    /\ \E id \in StoredIds : _requests[id].feePaid < _verificationFee
    /\ \E r \in Users : SubmitResult(r, 500000) = "Insufficient fee"

\* what submit writes besides the transfer: the requests, the requesters'
\* activity, the counters and the relayer's attestation records
submitVars == <<_requests, _userRequests, _requestCount, _lastRequestTime,
                _dailyRequestCount, _requestCounter, _totalRequests,
                requests>>

\* C10: a submit that would be accepted fails as a whole when the transfer
\* to the treasury fails; the treasury has received the fee of every stored
\* request and the relayer holds an attestation record for exactly the stored
\* requests; and a step in which the treasury receives nothing leaves the
\* requests, the requesters' activity, the request counter and the relayer's
\* attestation records as they were.
C10_FailedTransferCommitsNothing ==
    /\ [](/\ \A c \in Submissions :
                requestVerificationResult(c.requester, c.prompt, c.model,
                                          c.value, TRUE, c.switchboardOk)
                    = "ok"
                => requestVerificationResult(c.requester, c.prompt, c.model,
                                             c.value, FALSE, c.switchboardOk)
                       = "Fee transfer failed"
          /\ Len(treasuryReceipts) = _requestCounter
          /\ Cardinality(StoredIds) = _requestCounter
          /\ DOMAIN requests = StoredIds
          /\ \A id \in StoredIds :
                treasuryReceipts[id[5] + 1] = _requests[id].feePaid)
    /\ [][treasuryReceipts' = treasuryReceipts => UNCHANGED submitVars]_vars

\* a submit that fails on the transfer alone, after a first one was accepted
C10_Witness ==
    /\ _requestCounter >= 1
    /\ \E c \in Submissions :
          /\ ~c.transferOk
          /\ requestVerificationResult(c.requester, c.prompt, c.model, c.value,
                                       c.transferOk, c.switchboardOk)
                 = "Fee transfer failed"
    /\ requestVerificationCallerResult(PromptOK, ModelOK, INITIAL_FEE, FALSE,
                                       TRUE) = "Fee transfer failed"

\* the activity the registry keeps for an account: the time of its last
\* request, the number of its requests, its count of the day d
ActivityOf(a) ==
    <<Get(_lastRequestTime, a, 0), Get(_requestCount, a, 0),
      [d \in 0..1 |-> Get(_dailyRequestCount, <<a, d>>, 0)]>>

\* C24 as stated: for every account, the last request time, the daily
\* counts and the number of requests never decrease, and a submit for
\* another account (the backend's for another requester, or another
\* caller's own) leaves them unchanged.
C24_ActivityOnlyInOwnSubmit ==
    [][\A a \in Requesters :
          /\ ActivityOf(a)'[1] >= ActivityOf(a)[1]
          /\ ActivityOf(a)'[2] >= ActivityOf(a)[2]
          /\ \A d \in 0..1 : ActivityOf(a)'[3][d] >= ActivityOf(a)[3][d]
          /\ \A c \in Submissions :
                /\ c.requester # a
                /\ \E s \in Callers :
                       requestVerification(s, c.requester, c.prompt, c.model,
                                           c.value, c.transferOk,
                                           c.switchboardOk)
                => ActivityOf(a)' = ActivityOf(a)
          /\ \A s \in Callers \ {a} :
                (\E v \in Values, ok \in BOOLEAN :
                     requestVerificationCaller(s, PromptOK, ModelOK, v, ok,
                                               TRUE))
                    => ActivityOf(a)' = ActivityOf(a)]_vars

\* ------------------------------------------------------------------------
\* Properties of the oracle relayer (SpecRelayer)
\* ------------------------------------------------------------------------
\* the owner and the callers now in the authorized set
MayCall(s) == s = RELAYER_OWNER \/ s \in authorizedCallers

\* requestIds with a record, and one without
AttestedIds == DOMAIN requests

\* C15: requestAttestation and fulfillAttestation called by an account that
\* is neither the owner nor now in the authorized set (a revoked one
\* included) fail UnauthorizedCaller, and such a call changes no
\* attestation record.
C15_OnlyAuthorizedCallers ==
    /\ [](\A s \in RelayerCallers :
            ~MayCall(s) =>
                \A id \in RelayerRequestIds :
                    /\ \A ok \in BOOLEAN :
                           requestAttestationResult(s, id, ok)
                               = "UnauthorizedCaller"
                    /\ \A pr \in Proofs :
                           fulfillAttestationResult(s, id, pr)
                               = "UnauthorizedCaller")
    /\ [][\A s \in RelayerCallers :
            ~MayCall(s) =>
                \A id \in RelayerRequestIds :
                    (\/ \E d \in Payloads, ok \in BOOLEAN :
                           requestAttestation(s, id, d, ok)
                     \/ \E pr \in Proofs :
                           fulfillAttestation(s, id, <<"result">>, pr))
                        => UNCHANGED <<requests, processedAttestations>>]_vars

\* alice asked for an attestation while authorized, was revoked since, and
\* is refused on her own record
C15_Witness ==
    /\ ~MayCall("alice")
    /\ \E id \in AttestedIds :
           /\ requests[id].requester = "alice"
           /\ ~requests[id].fulfilled
           /\ fulfillAttestationResult("alice", id, <<"proof">>)
                  = "UnauthorizedCaller"
           /\ fulfillAttestationResult(RELAYER_OWNER, id, <<"proof">>) = "ok"

\* C16: once requests holds a record for a requestId, requestAttestation for
\* that requestId by any caller the modifier lets through fails
\* RequestAlreadyProcessed, whether or not the oracle call would go through,
\* and no requestAttestation for it changes a field of the record.
C16_DuplicateRequestRefused ==
    /\ [](\A id \in AttestedIds : \A s \in RelayerCallers :
            MayCall(s) =>
                \A ok \in BOOLEAN :
                    requestAttestationResult(s, id, ok)
                        = "RequestAlreadyProcessed")
    /\ [][\A id \in AttestedIds :
            (\E s \in RelayerCallers, d \in Payloads, ok \in BOOLEAN :
                 requestAttestation(s, id, d, ok))
                => /\ id \in DOMAIN requests'
                   /\ requests'[id] = requests[id]]_vars

\* a fulfilled record of the owner's, made in an earlier block, while alice
\* may call
C16_Witness ==
    /\ "alice" \in authorizedCallers
    /\ \E id \in AttestedIds :
           /\ requests[id].requester = RELAYER_OWNER
           /\ requests[id].fulfilled
           /\ requests[id].timestamp < now
           /\ requestAttestationResult("alice", id, TRUE)
                  = "RequestAlreadyProcessed"

\* C17: fulfillAttestation succeeds at most once per requestId: on a
\* fulfilled record every call the modifier lets through, whatever its
\* proof, fails RequestAlreadyProcessed; no step turns fulfilled from true
\* to false, removes a record, or changes another field of it.
C17_FulfilledOnce ==
    /\ [](\A id \in AttestedIds :
            requests[id].fulfilled =>
                \A s \in RelayerCallers, pr \in Proofs :
                    MayCall(s) =>
                        fulfillAttestationResult(s, id, pr)
                            = "RequestAlreadyProcessed")
    /\ [][\A id \in AttestedIds :
            /\ id \in DOMAIN requests'
            /\ requests[id].fulfilled => requests'[id].fulfilled
            /\ requests'[id] =
                   [requests[id] EXCEPT !.fulfilled = requests'[id].fulfilled]
        ]_vars

\* a record fulfilled in an earlier block, while another one is still open
C17_Witness ==
    \E id \in AttestedIds, other \in AttestedIds :
        /\ requests[id].fulfilled
        /\ requests[id].timestamp < now
        /\ ~requests[other].fulfilled
        /\ fulfillAttestationResult(RELAYER_OWNER, id, <<"proof">>)
               = "RequestAlreadyProcessed"
        /\ fulfillAttestationResult(RELAYER_OWNER, other, <<"proof">>) = "ok"

\* C18: for a caller the modifier lets through, fulfillAttestation fails
\* InvalidRequest when requests has no record for the requestId (even with
\* an empty proof), RequestAlreadyProcessed when the record is fulfilled
\* (even with an empty proof), and "Invalid proof" when the record is open
\* and the proof is empty; a failing call changes neither requests nor
\* processedAttestations.
C18_FulfilFailuresInOrder ==
    /\ [](\A s \in RelayerCallers :
            MayCall(s) =>
                \A id \in RelayerRequestIds \cup {ZERO_BYTES32} :
                    \A pr \in Proofs :
                        fulfillAttestationResult(s, id, pr) =
                            IF id \notin AttestedIds THEN "InvalidRequest"
                            ELSE IF requests[id].fulfilled
                            THEN "RequestAlreadyProcessed"
                            ELSE IF pr = <<>> THEN "Invalid proof"
                            ELSE "ok")
    /\ [][\A s \in RelayerCallers :
            \A id \in RelayerRequestIds \cup {ZERO_BYTES32} :
                \A pr \in Proofs :
                    /\ fulfillAttestationResult(s, id, pr) # "ok"
                    /\ fulfillAttestation(s, id, <<"result">>, pr)
                    => /\ UNCHANGED <<requests, processedAttestations>>
                       /\ \A other \in AttestedIds :
                              verifyAttestation(requests[other].attestationId)'
                                  = verifyAttestation(
                                        requests[other].attestationId)]_vars

\* one record fulfilled, one open, and a requestId without a record
C18_Witness ==
    /\ ZERO_BYTES32 \notin AttestedIds
    /\ fulfillAttestationResult("alice", ZERO_BYTES32, <<>>) = "InvalidRequest"
    /\ \E id \in AttestedIds, other \in AttestedIds :
           /\ fulfillAttestationResult("alice", id, <<>>)
                  = "RequestAlreadyProcessed"
           /\ fulfillAttestationResult("alice", other, <<>>) = "Invalid proof"
           /\ verifyAttestation(requests[id].attestationId)
           /\ ~verifyAttestation(requests[other].attestationId)

\* the attestationIds of the records, those marked processed, and one that
\* was never derived
KnownAttestationIds ==
    {requests[id].attestationId : id \in AttestedIds}
        \cup processedAttestations \cup {ZERO_BYTES32}

\* C19: in every reachable state, verifyAttestation(a) is true exactly when
\* some record of requests has attestationId a and is fulfilled.
C19_ValidIffFulfilledRecord ==
    \A a \in KnownAttestationIds :
        verifyAttestation(a) <=>
            \E id \in AttestedIds : /\ requests[id].attestationId = a
                                    /\ requests[id].fulfilled

\* a fulfilled record and an open one
C19_Witness ==
    \E id \in AttestedIds, other \in AttestedIds :
        /\ requests[id].fulfilled
        /\ verifyAttestation(requests[id].attestationId)
        /\ ~requests[other].fulfilled
        /\ ~verifyAttestation(requests[other].attestationId)
        /\ requests[other].requester = "alice"

\* ------------------------------------------------------------------------
\* Properties of the registry with its relayer (SpecReplace)
\* ------------------------------------------------------------------------
\* C20: fulfillVerification succeeds only with the attestationId stored on
\* the request and only when the relayer the registry calls reports it
\* valid; so every Verified request has, at the relayer, a fulfilled record
\* under its requestId with the stored attestationId, and the step that makes
\* a request Verified starts where that record is already fulfilled.  This
\* holds also while the admin moves the registry to another address and
\* back.
C20_AttestedBeforeVerified ==
    /\ [](\A id \in StoredIds :
            /\ \A f \in Fulfilments :
                   fulfillVerificationResult(id, f.output, f.attestationId,
                                             <<"proof">>) = "ok"
                       => /\ f.attestationId = _requests[id].attestationId
                          /\ _oracleRelayer = RELAYER_ADDR
                          /\ verifyAttestation(f.attestationId)
            /\ _requests[id].status = Verified
                   => /\ id \in AttestedIds
                      /\ requests[id].fulfilled
                      /\ requests[id].attestationId
                             = _requests[id].attestationId)
    /\ [][\A id \in StoredIds :
            /\ _requests[id].status # Verified
            /\ _requests'[id].status = Verified
            => /\ id \in AttestedIds
               /\ requests[id].fulfilled
               /\ requests[id].attestationId = _requests[id].attestationId
        ]_vars

\* a Verified request, a Pending one whose attestation is not fulfilled and
\* whose fulfil is refused for that, and later the registry moved away from
\* the relayer
C20_Witness ==
    /\ _oracleRelayer = VACANT_ADDR
    /\ \E id \in StoredIds, other \in StoredIds :
           /\ _requests[id].status = Verified
           /\ requests[id].fulfilled
           /\ _requests[other].status = Pending
           /\ ~requests[other].fulfilled
           /\ ~verifyAttestation(_requests[other].attestationId)

\* ------------------------------------------------------------------------
\* Properties of the certificates of fulfilled requests (SpecValidity)
\* ------------------------------------------------------------------------
\* C27 as stated: the certificate minted by a fulfilment is valid exactly
\* in the blocks whose time is less than 30 days after the time of that
\* fulfilment (here: the block of the fulfilment, the last second of the 30
\* days and the first second after them), and a token that does not exist
\* is not valid.
C27_ValidFromIssuance ==
    /\ [](~isVerificationValid(_tokenIdCounter).valid)
    /\ [][\A id \in StoredIds :
            /\ _requests[id].status # Verified
            /\ _requests'[id].status = Verified
            => \A t \in {_tokenIdCounter} :
                  \A at \in {now, now + VALIDITY_PERIOD - 1,
                              now + VALIDITY_PERIOD} :
                      /\ isVerificationValidAt(t, at).result' = "ok"
                      /\ isVerificationValidAt(t, at).valid'
                             <=> at < now + VALIDITY_PERIOD]_vars

\* ------------------------------------------------------------------------
\* Properties of the certificate issuer (SpecIssuer)
\* ------------------------------------------------------------------------
\* the tokens of a list
TokensIn(list) == {list[i] : i \in 1..Len(list)}

\* C9: a mint gives the new token, numbered by the counter, to a non-zero
\* owner and enters it in that owner's list and in no other; from then on
\* no mint, updateTokenMetadata, setBaseTokenURI or grantRole changes the
\* owner of a token, removes a token, or takes it out of its owner's list.
C9_OwnershipIsPermanent ==
    [][/\ \A t \in DOMAIN _owners :
             /\ ownerOf(t)' = ownerOf(t)
             /\ t \in TokensIn(getTokensByOwner(ownerOf(t)))'
       /\ \A t \in DOMAIN _owners' \ DOMAIN _owners :
             /\ t = _tokenIdCounter
             /\ ownerOf(t)' \in Users
             /\ \A o \in Users :
                   t \in TokensIn(getTokensByOwner(o))' <=> o = ownerOf(t)']_vars

\* two tokens with different owners, after the metadata of the first was
\* updated, the base URI was set and the minter role was granted
C9_Witness ==
    /\ _tokenIdCounter = 2
    /\ ownerOf(0) # ownerOf(1)
    /\ 0 \in TokensIn(getTokensByOwner(ownerOf(0)))
    /\ Get(_tokenURIs, 0, "") = "updated"
    /\ _baseTokenURI = "other/"
    /\ nftHasRole(MINTER_ROLE, "alice")

\* C25 as stated: whatever mints the accounts allowed to mint have made, no
\* two certificates carry the same requestId.
C25_OneCertificatePerRequestId ==
    \A t1 \in DOMAIN _tokenMetadata, t2 \in DOMAIN _tokenMetadata :
        t1 # t2 => _tokenMetadata[t1].requestId # _tokenMetadata[t2].requestId

\* a list of tokenIds in strictly ascending order
Ascending(list) ==
    \A i \in 1..Len(list), j \in 1..Len(list) : i < j => list[i] < list[j]

MintModels == {md.model : md \in Metadatas}

\* C26: the token counter never decreases and changes only in a mint, by
\* one; the token minted is numbered above every token minted before and is
\* appended at the end of its owner's list and of its model's list, every
\* other list staying as it was; so every list is in strictly ascending
\* order.
C26_MonotonicTokenIds ==
    /\ []( /\ \A o \in Users : Ascending(getTokensByOwner(o))
           /\ \A m \in MintModels : Ascending(getTokensByModel(m))
           /\ \A t \in DOMAIN _owners : t < _tokenIdCounter)
    /\ [][ /\ _tokenIdCounter' >= _tokenIdCounter
           /\ _tokenIdCounter' = _tokenIdCounter
                  => /\ \A o \in Users :
                           getTokensByOwner(o)' = getTokensByOwner(o)
                     /\ \A m \in MintModels :
                           getTokensByModel(m)' = getTokensByModel(m)
           /\ _tokenIdCounter' # _tokenIdCounter
                  => \A t \in {_tokenIdCounter} :
                     /\ _tokenIdCounter' = t + 1
                     /\ \E sd \in Callers, r \in Users, md \in Metadatas :
                           mintVerificationNFT(sd, r, md)
                     /\ \A u \in DOMAIN _owners : u < t
                     /\ t \in DOMAIN _owners'
                     /\ \A o \in Users :
                           getTokensByOwner(o)' =
                               IF o = ownerOf(t)'
                               THEN Append(getTokensByOwner(o), t)
                               ELSE getTokensByOwner(o)
                     /\ \A m \in MintModels :
                           getTokensByModel(m)' =
                               IF m = _tokenMetadata'[t].model
                               THEN Append(getTokensByModel(m), t)
                               ELSE getTokensByModel(m)]_vars

\* two tokens of one owner and one model
C26_Witness ==
    \E o \in Users, m \in MintModels :
        /\ getTokensByOwner(o) = <<0, 1>>
        /\ getTokensByModel(m) = <<0, 1>>

\* C28: while a requestVerification is in flight and has called the
\* treasury, every state-mutating registry operation called again is
\* rejected (a submit, a fulfil and a mark-failed alike) and no step other
\* than the treasury's return changes the registry's, the relayer's or the
\* issuer's state.
C28_ReentrantCallsRejected ==
    /\ [](inFlight # <<>> =>
            \A id \in RequestIds, r \in Users, o \in Outputs :
                /\ requestVerificationResult(r, PromptOK, ModelOK, INITIAL_FEE, TRUE, TRUE) # "ok"
                /\ requestVerificationCallerResult(PromptOK, ModelOK, INITIAL_FEE, TRUE, TRUE) # "ok"
                /\ fulfillVerificationResult(id, o, Get(_requests, id, EmptyRequest).attestationId, <<"proof">>) # "ok"
                /\ markVerificationFailedResult(id) # "ok")
    /\ [][inFlight # <<>> /\ inFlight' # <<>> =>
              UNCHANGED <<registryVars, relayerVars, nftVars>>]_vars

\* the relayer's answer to the request the registry would make for r
RelayerAnswer(r, switchboardOk) ==
    requestAttestationResult(
        REGISTRY, generateRequestId(r, PromptOK, ModelOK, now, _requestCounter),
        switchboardOk)

\* C29: when the relayer's requestAttestation fails for the request a submit
\* would make (the registry is not authorised, the requestId is already
\* recorded, or the oracle call fails), the submit fails, and its step
\* transfers no fee to the treasury, commits no request and leaves every
\* account's activity, the counters and the relayer's records unchanged.
C29_RelayerFailureAbortsSubmit ==
    /\ []( \A r \in Users, ok \in BOOLEAN :
               RelayerAnswer(r, ok) # "ok" =>
                   requestVerificationResult(r, PromptOK, ModelOK, INITIAL_FEE, TRUE, ok) # "ok")
    /\ []( \A ok \in BOOLEAN :
               RelayerAnswer(msgSender, ok) # "ok" =>
                   requestVerificationCallerResult(PromptOK, ModelOK, INITIAL_FEE, TRUE, ok) # "ok")
    /\ [][ \A r \in Users, ok \in BOOLEAN :
               /\ (RelayerAnswer(r, ok) # "ok"
                      /\ requestVerification(ADMIN, r, PromptOK, ModelOK, INITIAL_FEE, TRUE, ok))
                    => UNCHANGED <<registryVars, relayerVars>>
               /\ (RelayerAnswer(msgSender, ok) # "ok"
                      /\ requestVerificationCaller(ADMIN, PromptOK, ModelOK, INITIAL_FEE, TRUE, ok))
                    => UNCHANGED <<registryVars, relayerVars>> ]_vars

\* a submit that passes every check of the registry, after an earlier one
\* was committed, is refused by the relayer for each of the three reasons
C29_Witness ==
    /\ _requestCounter > 0
    /\ Len(treasuryReceipts) > 0
    /\ \E r \in Users :
          /\ requestVerificationResult(r, PromptOK, ModelOK, INITIAL_FEE, TRUE, TRUE) = "RequestAlreadyProcessed"
          /\ requestVerificationResult(r, PromptOK, ModelOK, INITIAL_FEE, TRUE, FALSE) = "RequestAlreadyProcessed"
    /\ \E r \in Users :
          requestVerificationResult(r, PromptOK, ModelOK, INITIAL_FEE, TRUE, FALSE) = "OracleCallFailed"

\* the preconditions of a submit, each on its own
InputInvalid(prompt, model) ==
    \/ Len(prompt) = 0
    \/ Len(prompt) > MAX_PROMPT_LENGTH
    \/ Len(model) = 0
    \/ Len(model) > MAX_MODEL_LENGTH
FeeTooLow(value) == value < _calculateDynamicFee.fee
InsideWindow(r) == now < Get(_lastRequestTime, r, 0) + RATE_LIMIT_WINDOW
DailyLimitReached(r) ==
    Get(_dailyRequestCount, <<r, currentDay>>, 0) >= MAX_DAILY_REQUESTS

\* C30: a submit that violates several preconditions fails on the first of
\* them in the order input validity, fee, rate-limit window, daily limit:
\* ill-formed input is reported whatever else is wrong, an insufficient fee
\* whatever the limits say, the window before the daily limit.
C30_FirstViolationReported ==
    (~_paused /\ _calculateDynamicFee.result = "ok") =>
    \A r \in Users, p \in {"", PromptOK, PromptTooLong},
       m \in {"", ModelOK, ModelTooLong}, v \in Values, ok \in BOOLEAN :
        LET res == requestVerificationResult(r, p, m, v, ok, ok) IN
        /\ InputInvalid(p, m) =>
               res \in {"Invalid prompt length", "Invalid model length"}
        /\ (~InputInvalid(p, m) /\ FeeTooLow(v)) => res = "Insufficient fee"
        /\ (~InputInvalid(p, m) /\ ~FeeTooLow(v) /\ InsideWindow(r)) =>
               res = "Rate limit exceeded"
        /\ (~InputInvalid(p, m) /\ ~FeeTooLow(v) /\ ~InsideWindow(r)
                /\ DailyLimitReached(r)) => res = "Daily limit exceeded"

\* alice has made her hundredth request of the day this very second: a
\* further submit violates the window and the daily limit, and, with a long
\* prompt or a small fee, those as well
C30_Witness ==
    /\ InsideWindow("alice")
    /\ DailyLimitReached("alice")
    /\ FeeTooLow(100000)
    /\ requestVerificationResult("alice", PromptTooLong, ModelOK, 100000, TRUE, TRUE) = "Invalid prompt length"
    /\ requestVerificationResult("alice", PromptOK, ModelOK, 100000, TRUE, TRUE) = "Insufficient fee"
    /\ requestVerificationResult("alice", PromptOK, ModelOK, INITIAL_FEE, TRUE, TRUE) = "Rate limit exceeded"

\* C31: the caller-pays submit of an account s and the backend's submit for
\* requester s, from the same state with the same prompt, model, fee and
\* time, accept or reject alike, and a step of the first is a step of the
\* second: the same request record, the same activity of s.
C31_EntryPointsAgree ==
    /\ []( \A s \in Callers, v \in Values, t \in BOOLEAN :
               requestVerificationCallerResult(PromptOK, ModelOK, v, t, TRUE)
                 = requestVerificationResult(s, PromptOK, ModelOK, v, t, TRUE))
    /\ [][ \A s \in Callers, v \in Values, t \in BOOLEAN :
               requestVerificationCaller(s, PromptOK, ModelOK, v, t, TRUE)
                 => requestVerification(ADMIN, s, PromptOK, ModelOK, v, t, TRUE) ]_vars

\* a step that commits a submit: the request counter moves
SubmitAccepted == _requestCounter' # _requestCounter

\* C32: the request counter increases by one per accepted submit and counts
\* the requests stored; an accepted submit stores its request under an id
\* no earlier request has, derived from the requester, the prompt, the
\* model, the time and the counter before the step; no step removes a
\* request or changes whose it is, what it asks and when it was made.
C32_FreshRequestIds ==
    /\ [](Cardinality(DOMAIN _requests) = _requestCounter)
    /\ [][ /\ DOMAIN _requests \subseteq DOMAIN _requests'
           /\ \A id \in DOMAIN _requests :
                 /\ _requests'[id].requester = _requests[id].requester
                 /\ _requests'[id].prompt = _requests[id].prompt
                 /\ _requests'[id].model = _requests[id].model
                 /\ _requests'[id].timestamp = _requests[id].timestamp
           /\ _requestCounter' \in {_requestCounter, _requestCounter + 1}
           /\ SubmitAccepted =>
                 \E id \in DOMAIN _requests' \ DOMAIN _requests :
                     /\ DOMAIN _requests' = DOMAIN _requests \cup {id}
                     /\ id = generateRequestId(_requests'[id].requester,
                                               _requests'[id].prompt,
                                               _requests'[id].model, now,
                                               _requestCounter)
           /\ ~SubmitAccepted => DOMAIN _requests' = DOMAIN _requests ]_vars

\* two requests of one requester with the same prompt and model are stored
\* side by side
C32_Witness ==
    \E id1, id2 \in DOMAIN _requests :
        /\ id1 # id2
        /\ _requests[id1].requester = _requests[id2].requester
        /\ _requests[id1].prompt = _requests[id2].prompt
        /\ _requests[id1].model = _requests[id2].model

\* ------------------------------------------------------------------
\* MultichainContractService and its two chain services.  A call of a chain
\* service ends in a value or in a thrown error; what the chain holds and
\* whether the call into it fails are inputs of the call.

Omitted == "undefined"
\* null in the place of an NFT, in the shape of one so that the two compare
Null == [tokenId |-> "null", chain |-> "null"]
Returned(v) == [threw |-> FALSE, value |-> v]
\* a thrown Error: its message, and nothing else
Thrown(e) == [threw |-> TRUE, value |-> [message |-> e]]

startsWith(str, prefix) ==
    Len(str) >= Len(prefix) /\ SubSeq(str, 1, Len(prefix)) = prefix

ZeroStats ==
    [totalVerifications |-> 0, verifiedCount |-> 0, totalNFTs |-> 0,
     totalUsers |-> 0]
EmptyPage(page) == [nfts |-> <<>>, total |-> 0, page |-> page, totalPages |-> 0]

\* SolanaContractService
solana_requestVerification(suffix, fails) ==
    IF fails THEN Thrown("error")
    ELSE Returned([requestId |-> "solana_" \o suffix, chain |-> "solana"])

solana_mintNFT(suffix, fails) ==
    IF fails THEN Thrown("error")
    ELSE Returned([tokenId |-> "sol_nft_" \o suffix])

solana_getNFT(tokenId, fails) ==
    IF fails THEN Null ELSE [tokenId |-> tokenId, chain |-> "solana"]

solana_getUserNFTs(page, limit, held, fails) ==
    IF fails THEN EmptyPage(page)
    ELSE [nfts |-> held.nfts, total |-> held.total, page |-> page,
          totalPages |-> held.totalPages]

solana_getStats(held, fails) == IF fails THEN ZeroStats ELSE held

solana_healthCheck(fails) == ~fails

\* EthereumContractService
ethereum_requestVerification(suffix, fails) ==
    IF fails THEN Thrown("error")
    ELSE Returned([requestId |-> "eth_" \o suffix, chain |-> "ethereum"])

ethereum_mintNFT(suffix, fails) ==
    IF fails THEN Thrown("error")
    ELSE Returned([tokenId |-> "eth_nft_" \o suffix])

ethereum_getNFT(tokenId, fails) ==
    IF fails THEN Null ELSE [tokenId |-> tokenId, chain |-> "ethereum"]

ethereum_getUserNFTs(page, limit, held, fails) ==
    IF fails THEN EmptyPage(page)
    ELSE [nfts |-> held.nfts, total |-> held.total, page |-> page,
          totalPages |-> held.totalPages]

ethereum_getStats(held, fails) == IF fails THEN ZeroStats ELSE held

ethereum_healthCheck == TRUE

\* MultichainContractService.detectChainFromTokenId
detectChainFromTokenId(tokenId) ==
    IF startsWith(tokenId, "sol_") \/ startsWith(tokenId, "solana_")
    THEN "solana"
    ELSE IF startsWith(tokenId, "eth_") \/ startsWith(tokenId, "ethereum_")
    THEN "ethereum"
    ELSE defaultChain

\* the answer of the router and the chain services it invoked, in order
Answer(result, invoked) == [result |-> result, invoked |-> invoked]

\* variant: a call that names no chain goes to solana whatever the default
multichain_requestVerification_solanaWhenOmitted(chain, suffix, solanaFails, ethereumFails) ==
    LET target == IF chain = Omitted THEN "solana" ELSE chain IN
    IF target = "solana"
    THEN Answer(solana_requestVerification(suffix, solanaFails), <<"solana">>)
    ELSE IF target = "ethereum"
    THEN Answer(ethereum_requestVerification(suffix, ethereumFails),
                <<"ethereum">>)
    ELSE Answer(Thrown("Unsupported chain"), <<>>)

multichain_requestVerification(chain, suffix, solanaFails, ethereumFails) ==
    LET target == IF chain = Omitted THEN defaultChain ELSE chain IN
    IF target = "solana"
    THEN Answer(solana_requestVerification(suffix, solanaFails), <<"solana">>)
    ELSE IF target = "ethereum"
    THEN Answer(ethereum_requestVerification(suffix, ethereumFails),
                <<"ethereum">>)
    ELSE Answer(Thrown("Unsupported chain"), <<>>)

multichain_mintNFT(chain, suffix, solanaFails, ethereumFails) ==
    LET target == IF chain = Omitted THEN defaultChain ELSE chain
        tagged(r) ==
            IF r.threw THEN r
            ELSE Returned([tokenId |-> r.value.tokenId, chain |-> target])
    IN
    IF target = "solana"
    THEN Answer(tagged(solana_mintNFT(suffix, solanaFails)), <<"solana">>)
    ELSE IF target = "ethereum"
    THEN Answer(tagged(ethereum_mintNFT(suffix, ethereumFails)),
                <<"ethereum">>)
    ELSE Answer(Thrown("Unsupported chain"), <<>>)

multichain_getNFT(tokenId, chain, solanaFails, ethereumFails) ==
    LET targetChain ==
            IF chain = Omitted THEN detectChainFromTokenId(tokenId) ELSE chain
    IN
    IF targetChain = "solana"
    THEN Answer(Returned(solana_getNFT(tokenId, solanaFails)), <<"solana">>)
    ELSE IF targetChain = "ethereum"
    THEN Answer(Returned(ethereum_getNFT(tokenId, ethereumFails)),
                <<"ethereum">>)
    ELSE IF solana_getNFT(tokenId, solanaFails) # Null
    THEN Answer(Returned(solana_getNFT(tokenId, solanaFails)), <<"solana">>)
    ELSE Answer(Returned(ethereum_getNFT(tokenId, ethereumFails)),
                <<"solana", "ethereum">>)

\* the limit of the requests the router makes when it merges the chains
MERGE_LIMIT == 1000

Min(a, b) == IF a < b THEN a ELSE b
\* Array.prototype.slice(start, end) for 0 <= start <= end
slice(list, start, end) ==
    SubSeq(list, Min(start, Len(list)) + 1, Min(end, Len(list)))
\* variant: the quotient is rounded down
ceilDiv_floor(a, b) == a \div b

\* Math.ceil(a / b) for a >= 0 and b > 0
ceilDiv(a, b) == (a + b - 1) \div b

multichain_getUserNFTs(page, limit, chain, solanaHeld, ethereumHeld, solanaFails, ethereumFails) ==
    IF chain = "solana"
    THEN Answer(Returned(solana_getUserNFTs(page, limit, solanaHeld,
                                            solanaFails)), <<"solana">>)
    ELSE IF chain = "ethereum"
    THEN Answer(Returned(ethereum_getUserNFTs(page, limit, ethereumHeld,
                                              ethereumFails)), <<"ethereum">>)
    ELSE IF chain # Omitted
    THEN Answer(Returned([nfts |-> <<>>, total |-> 0, page |-> page,
                          totalPages |-> 0,
                          chainBreakdown |-> [ethereum |-> 0, solana |-> 0]]),
                <<>>)
    ELSE
    LET solanaResult ==
            solana_getUserNFTs(1, MERGE_LIMIT, solanaHeld, solanaFails)
        ethereumResult ==
            ethereum_getUserNFTs(1, MERGE_LIMIT, ethereumHeld, ethereumFails)
        allNFTs == solanaResult.nfts \o ethereumResult.nfts
        total == Len(allNFTs)
        startIndex == (page - 1) * limit
        endIndex == startIndex + limit
    IN
    Answer(Returned([nfts |-> slice(allNFTs, startIndex, endIndex),
                     total |-> total, page |-> page,
                     totalPages |-> ceilDiv(total, limit),
                     chainBreakdown |->
                         [ethereum |-> ethereumResult.total,
                          solana |-> solanaResult.total]]),
           <<"solana", "ethereum">>)

addStats(a, b) ==
    [totalVerifications |-> a.totalVerifications + b.totalVerifications,
     verifiedCount |-> a.verifiedCount + b.verifiedCount,
     totalNFTs |-> a.totalNFTs + b.totalNFTs,
     totalUsers |-> a.totalUsers + b.totalUsers]

\* variant: the failure of one chain takes the router's own catch, which
\* zeroes every chain
multichain_getStats_allOrNothing(solanaHeld, ethereumHeld, solanaFails, ethereumFails) ==
    IF solanaFails \/ ethereumFails
    THEN Answer(Returned([ethereum |-> ZeroStats, solana |-> ZeroStats,
                          combined |-> ZeroStats]), <<"solana", "ethereum">>)
    ELSE Answer(Returned([ethereum |-> ethereumHeld, solana |-> solanaHeld,
                          combined |-> addStats(ethereumHeld, solanaHeld)]),
                <<"solana", "ethereum">>)

multichain_getStats(solanaHeld, ethereumHeld, solanaFails, ethereumFails) ==
    LET solanaStats == solana_getStats(solanaHeld, solanaFails)
        ethereumStats == ethereum_getStats(ethereumHeld, ethereumFails)
    IN
    Answer(Returned([ethereum |-> ethereumStats, solana |-> solanaStats,
                     combined |-> addStats(ethereumStats, solanaStats)]),
           <<"solana", "ethereum">>)

multichain_healthCheck(solanaFails) ==
    LET ethereumHealth == ethereum_healthCheck
        solanaHealth == solana_healthCheck(solanaFails)
    IN
    Answer(Returned([ethereum |-> ethereumHealth, solana |-> solanaHealth,
                     overall |-> ethereumHealth /\ solanaHealth]),
           <<"ethereum", "solana">>)

\* a call of the router: its arguments and its answer are kept
RouterCall(op, args, answer) ==
    /\ routerReply' = [op |-> op, args |-> args, default |-> defaultChain,
                       result |-> answer.result, invoked |-> answer.invoked]
    /\ UNCHANGED defaultChain
    /\ UNCHANGED <<ledgerVars, callVars, feedVars, registryVars, relayerVars, nftVars>>

setDefaultChain(chain) ==
    /\ defaultChain' = chain
    /\ UNCHANGED routerReply
    /\ UNCHANGED <<ledgerVars, callVars, feedVars, registryVars, relayerVars, nftVars>>

Chains == {"solana", "ethereum"}
ChainArgs == Chains \cup {Omitted}
TokenIds == {"sol_nft_1", "solana_2", "eth_nft_1", "ethereum_2", "42"}
\* what a chain holds of one owner: no certificate, one, two
Holdings(chain) ==
    {[nfts |-> [i \in 1..n |-> [tokenId |-> i, chain |-> chain]],
      total |-> n, totalPages |-> IF n = 0 THEN 0 ELSE 1] : n \in 0..2}
ChainStats == {ZeroStats,
               [totalVerifications |-> 3, verifiedCount |-> 2,
                totalNFTs |-> 2, totalUsers |-> 1]}
Pages == 1..3
Limits == 1..3

\* each call computes its reply from the inputs of that call
NextRouter ==
    \/ \E c \in Chains : setDefaultChain(c)
    \/ \E c \in ChainArgs, sf, ef \in BOOLEAN :
          /\ RouterCall("requestVerification", <<c, sf, ef>>,
                        multichain_requestVerification(c, "1", sf, ef))
    \/ \E c \in ChainArgs, sf, ef \in BOOLEAN :
          /\ RouterCall("mintNFT", <<c, sf, ef>>,
                        multichain_mintNFT(c, "1", sf, ef))
    \/ \E t \in TokenIds, c \in ChainArgs, sf, ef \in BOOLEAN :
          /\ RouterCall("getNFT", <<t, c, sf, ef>>,
                        multichain_getNFT(t, c, sf, ef))
    \/ \E p \in Pages, l \in Limits, c \in ChainArgs, sf, ef \in BOOLEAN :
          /\ \E sh \in Holdings("solana"), eh \in Holdings("ethereum") :
                RouterCall("getUserNFTs", <<p, l, c, sh, eh, sf, ef>>,
                           multichain_getUserNFTs(p, l, c, sh, eh, sf, ef))
    \/ \E sh, eh \in ChainStats, sf, ef \in BOOLEAN :
          /\ RouterCall("getStats", <<sh, eh, sf, ef>>,
                        multichain_getStats(sh, eh, sf, ef))
    \/ \E sf \in BOOLEAN :
          /\ RouterCall("healthCheck", <<sf>>, multichain_healthCheck(sf))

SpecRouter == Init /\ [][NextRouter]_vars

\* the last call of the router was of operation op
Called(op) == routerReply # <<>> /\ routerReply.op = op
\* the chain a call is meant for: the one it names, else the default
Selected(chain) == IF chain = Omitted THEN routerReply.default ELSE chain

\* C33: the default chain is solana at first and changes only by
\* setDefaultChain; a requestVerification of the router invokes exactly one
\* chain service, that of the chain named or else of the default chain, and
\* a response carries the chain of the service that was invoked.
C33_SubmitDispatch ==
    /\ defaultChain = "solana"
    /\ [][defaultChain' # defaultChain =>
              \E c \in Chains : setDefaultChain(c)]_vars
    /\ [](Called("requestVerification") =>
            /\ routerReply.invoked = <<Selected(routerReply.args[1])>>
            /\ ~routerReply.result.threw =>
                  routerReply.result.value.chain = routerReply.invoked[1])

\* a submit that names no chain was served by ethereum, the default then
C33_Witness ==
    /\ Called("requestVerification")
    /\ routerReply.args[1] = Omitted
    /\ routerReply.default = "ethereum"
    /\ ~routerReply.result.threw
    /\ routerReply.result.value.chain = "ethereum"
    /\ routerReply.invoked = <<"ethereum">>

\* the chain a token id names by its prefix, Omitted if it names none
PrefixChain(tokenId) ==
    IF startsWith(tokenId, "sol_") \/ startsWith(tokenId, "solana_")
    THEN "solana"
    ELSE IF startsWith(tokenId, "eth_") \/ startsWith(tokenId, "ethereum_")
    THEN "ethereum"
    ELSE Omitted

\* C34: a getNFT that names no chain queries the chain of the token id's
\* prefix when it has one; when it has none, it answers with the first hit
\* among solana and ethereum, in this order, and with null only when
\* neither chain has the token.
C34_ProbeInFixedOrder ==
    (Called("getNFT") /\ routerReply.args[2] = Omitted) =>
        LET tokenId == routerReply.args[1]
            onSolana == solana_getNFT(tokenId, routerReply.args[3])
            onEthereum == ethereum_getNFT(tokenId, routerReply.args[4])
        IN
        /\ PrefixChain(tokenId) = "solana" =>
               /\ routerReply.invoked = <<"solana">>
               /\ routerReply.result = Returned(onSolana)
        /\ PrefixChain(tokenId) = "ethereum" =>
               /\ routerReply.invoked = <<"ethereum">>
               /\ routerReply.result = Returned(onEthereum)
        /\ PrefixChain(tokenId) = Omitted =>
               routerReply.result =
                   Returned(IF onSolana # Null THEN onSolana ELSE onEthereum)

\* C35: a getUserNFTs that names no chain, for page >= 1 and limit >= 1,
\* answers with the entries (page-1)*limit+1 .. page*limit of solana's
\* results followed by ethereum's, as far as they exist; total is the
\* number of all of them, totalPages the least number of pages of limit
\* entries that holds them, and the two counts of chainBreakdown sum to
\* total.
C35_MergedPage ==
    (Called("getUserNFTs") /\ routerReply.args[3] = Omitted) =>
        LET page == routerReply.args[1]
            limit == routerReply.args[2]
            all == solana_getUserNFTs(1, MERGE_LIMIT, routerReply.args[4],
                                      routerReply.args[6]).nfts
                   \o ethereum_getUserNFTs(1, MERGE_LIMIT, routerReply.args[5],
                                           routerReply.args[7]).nfts
            first == (page - 1) * limit
            got == routerReply.result.value
        IN
        /\ ~routerReply.result.threw
        /\ \A i \in 1..limit :
               IF first + i <= Len(all)
               THEN i <= Len(got.nfts) /\ got.nfts[i] = all[first + i]
               ELSE Len(got.nfts) < i
        /\ got.total = Len(all)
        /\ got.page = page
        /\ got.totalPages * limit >= got.total
        /\ got.totalPages >= 0
        /\ got.totalPages > 0 => (got.totalPages - 1) * limit < got.total
        /\ got.chainBreakdown.solana + got.chainBreakdown.ethereum = got.total

\* the second page of two entries out of one solana and two ethereum
\* certificates: the last ethereum certificate alone, of three in two pages
C35_Witness ==
    /\ Called("getUserNFTs")
    /\ routerReply.args[3] = Omitted
    /\ routerReply.args[1] = 2
    /\ routerReply.args[2] = 2
    /\ routerReply.result.value.total = 3
    /\ routerReply.result.value.totalPages = 2
    /\ routerReply.result.value.chainBreakdown = [ethereum |-> 2, solana |-> 1]
    /\ routerReply.result.value.nfts = <<[tokenId |-> 2, chain |-> "ethereum"]>>

\* C36: getStats and healthCheck never fail; a chain whose call fails
\* shows zeroed statistics or false health, the other chain its real
\* values, and the combined statistics are the sum of the two shown.
C36_PartialAggregation ==
    /\ Called("getStats") =>
          LET got == routerReply.result.value IN
          /\ ~routerReply.result.threw
          /\ got.solana = IF routerReply.args[3] THEN ZeroStats
                          ELSE routerReply.args[1]
          /\ got.ethereum = IF routerReply.args[4] THEN ZeroStats
                            ELSE routerReply.args[2]
          /\ got.combined = addStats(got.ethereum, got.solana)
    /\ Called("healthCheck") =>
          LET got == routerReply.result.value IN
          /\ ~routerReply.result.threw
          /\ got.solana = ~routerReply.args[1]
          /\ got.ethereum
          /\ got.overall = (got.solana /\ got.ethereum)

\* solana's statistics failed and are zeroed while ethereum's are shown
C36_Witness ==
    /\ Called("getStats")
    /\ routerReply.args[3]
    /\ ~routerReply.args[4]
    /\ routerReply.result.value.solana = ZeroStats
    /\ routerReply.result.value.ethereum # ZeroStats
    /\ routerReply.result.value.combined = routerReply.result.value.ethereum

\* the chain service a call with a chain given is meant for has failed
TargetFailed(chain, solanaFails, ethereumFails) ==
    \/ chain = "solana" /\ solanaFails
    \/ chain = "ethereum" /\ ethereumFails

\* the answer is a failure that carries the chain
FailureTagged(chain) ==
    /\ routerReply.result.threw
    /\ "chain" \in DOMAIN routerReply.result.value
    /\ routerReply.result.value.chain = chain

\* C37: a requestVerification, a mintNFT, a getNFT or a getUserNFTs of the
\* router that names its chain and whose chain service fails ends in a
\* failure that carries that chain, never in a value.
C37_FailureSurfacedWithChain ==
    /\ (Called("requestVerification") \/ Called("mintNFT")) =>
          (TargetFailed(routerReply.args[1], routerReply.args[2],
                        routerReply.args[3])
             => FailureTagged(routerReply.args[1]))
    /\ Called("getNFT") =>
          (TargetFailed(routerReply.args[2], routerReply.args[3],
                        routerReply.args[4])
             => FailureTagged(routerReply.args[2]))
    /\ Called("getUserNFTs") =>
          (TargetFailed(routerReply.args[3], routerReply.args[6],
                        routerReply.args[7])
             => FailureTagged(routerReply.args[3]))

\* fulfilments against an issuer that is not set, set, and replaced by an
\* address that holds no contract
NextMint ==
    \/ blockNumber < MaxBlock /\ Tick(1)
    \/ authorizeOracleCaller(RELAYER_OWNER, REGISTRY)
    \/ \E a \in {NFT_ADDR, VACANT_ADDR} : setNFTContract(ADMIN, a)
    \/ \E r \in Users :
          /\ _requestCounter < MaxRequests
          /\ requestVerification(ADMIN, r, PromptOK, ModelOK, INITIAL_FEE, TRUE, TRUE)
    \/ \E id \in RequestIds :
          fulfillAttestation(RELAYER_OWNER, id, <<"result">>, <<"proof">>)
    \/ \E id \in RequestIds, o \in Outputs :
          fulfillVerification(ADMIN, id, o, Get(_requests, id, EmptyRequest).attestationId, <<"proof">>)
    \/ \E id \in RequestIds : markVerificationFailed(ADMIN, id, "reason")

SpecMint == Init /\ [][NextMint]_vars

\* the requests of status Verified
VerifiedIds == {id \in DOMAIN _requests : _requests[id].status = Verified}

\* the issuer's mint for the fulfilment of id with output o would fail
MintWouldFail(id, o) ==
    _mintVerificationNFTResult(id, calculateOutputHash(o), <<"proof">>) # "ok"

\* C38: a fulfilment whose mint fails, fails: the request stays as it was,
\* Pending with an empty output hash, and no certificate is minted; in
\* every state a Verified request has its certificate issued and the
\* verified counter is the number of Verified requests.
C38_FulfilAtomicWithMint ==
    /\ []( /\ \A id \in VerifiedIds : _requests[id].nftMinted
           /\ _totalVerified = Cardinality(VerifiedIds)
           /\ _tokenIdCounter = Cardinality(VerifiedIds)
           /\ \A id \in DOMAIN _requests, o \in Outputs :
                 MintWouldFail(id, o) =>
                     fulfillVerificationResult(id, o, _requests[id].attestationId,
                                               <<"proof">>) # "ok" )
    /\ [][ \A id \in DOMAIN _requests, o \in Outputs :
               (/\ MintWouldFail(id, o)
                /\ fulfillVerification(ADMIN, id, o, _requests[id].attestationId,
                                       <<"proof">>))
               => /\ UNCHANGED <<registryVars, nftVars>>
                  /\ _requests[id].status = Pending =>
                        /\ _requests'[id].status = Pending
                        /\ _requests'[id].outputHash = ZERO_BYTES32 ]_vars

\* a Pending, attested request that only the missing contract at the
\* issuer's address keeps from being fulfilled, next to a Verified one
C38_Witness ==
    /\ VerifiedIds # {}
    /\ \E id \in DOMAIN _requests, o \in Outputs :
          /\ _requests[id].status = Pending
          /\ MintWouldFail(id, o)
          /\ verifyAttestation(_requests[id].attestationId)
          /\ ~isRequestExpired(_requests[id].timestamp, now)
          /\ fulfillVerificationResult(id, o, _requests[id].attestationId, <<"proof">>) = "revert"

\* a requester who uses up the quota of the day of deployment, as fast as
\* the rate limit allows, and goes on the day after
NextQuota ==
    \/ authorizeOracleCaller(RELAYER_OWNER, REGISTRY)
    \/ /\ Get(_lastRequestTime, "alice", 0) = now
       /\ Tick(RATE_LIMIT_WINDOW)
    \/ /\ now < DEPLOYMENT_TIME + SECONDS_PER_DAY
       /\ Tick(SECONDS_PER_DAY)
    \/ /\ _requestCounter < MAX_DAILY_REQUESTS + 2
       /\ requestVerification(ADMIN, "alice", PromptOK, ModelOK, INITIAL_FEE,
                              TRUE, TRUE)

SpecQuota == Init /\ [][NextQuota]_vars

\* the block time lies in day d after the deployment
InDay(d) ==
    /\ now >= DEPLOYMENT_TIME + d * SECONDS_PER_DAY
    /\ now < DEPLOYMENT_TIME + (d + 1) * SECONDS_PER_DAY
DailyCount(r, d) == Get(_dailyRequestCount, <<r, d>>, 0)

\* C39: a requester with the full quota of accepted submits in day d is
\* accepted again in day d+1, the rate-limit window having passed and the
\* submit being valid otherwise; and a step in one day changes no count of
\* another day.
C39_QuotaPerDay ==
    /\ []( \A r \in Users, d \in 0..1 :
               (/\ DailyCount(r, d) >= MAX_DAILY_REQUESTS
                /\ InDay(d + 1)
                /\ DailyCount(r, d + 1) < MAX_DAILY_REQUESTS
                /\ ~InsideWindow(r)
                /\ ~_paused
                /\ RelayerAnswer(r, TRUE) = "ok")
               => requestVerificationResult(r, PromptOK, ModelOK, INITIAL_FEE,
                                            TRUE, TRUE) = "ok" )
    /\ [][ \A r \in Users, d \in 0..2 :
               ~InDay(d) => DailyCount(r, d)' = DailyCount(r, d) ]_vars

\* the hundred requests of the first day and one accepted the day after
C39_Witness ==
    /\ DailyCount("alice", 0) = MAX_DAILY_REQUESTS
    /\ DailyCount("alice", 1) = 1
    /\ InDay(1)

\* the registry paused and unpaused between submissions and fulfilments
NextPause ==
    \/ blockNumber < MaxBlock /\ Tick(RATE_LIMIT_WINDOW)
    \/ authorizeOracleCaller(RELAYER_OWNER, REGISTRY)
    \/ setNFTContract(ADMIN, NFT_ADDR)
    \/ grantRole(ADMIN, PAUSER_ROLE, ADMIN)
    \/ \E s \in Callers : pause(s)
    \/ \E s \in Callers : unpause(s)
    \/ /\ _requestCounter < MaxRequests
       /\ requestVerification(ADMIN, "alice", PromptOK, ModelOK, INITIAL_FEE, TRUE, TRUE)
    \/ /\ _requestCounter < MaxRequests
       /\ requestVerificationCaller("alice", PromptOK, ModelOK, INITIAL_FEE, TRUE, TRUE)
    \/ \E id \in RequestIds :
          fulfillAttestation(RELAYER_OWNER, id, <<"result">>, <<"proof">>)
    \/ \E id \in RequestIds :
          fulfillVerification(ADMIN, id, "altered", Get(_requests, id, EmptyRequest).attestationId, <<"proof">>)
    \/ \E id \in RequestIds : markVerificationFailed(ADMIN, id, "reason")

SpecPause == Init /\ [][NextPause]_vars

\* C40: while the registry is paused both submits fail with the pause and
\* their steps change nothing; a Pending request can be marked failed, and
\* fulfilled when its attestation is valid, it has not expired and the
\* issuer is set, paused or not; pausing and unpausing change no request,
\* no activity and no counter, and an unpaused registry refuses no submit
\* for the pause.
C40_PauseBlocksSubmitOnly ==
    /\ []( \A r \in Users, v \in Values :
               /\ (requestVerificationResult(r, PromptOK, ModelOK, v, TRUE, TRUE)
                     = "Contract paused") <=> _paused
               /\ (requestVerificationCallerResult(PromptOK, ModelOK, v, TRUE, TRUE)
                     = "Contract paused") <=> _paused )
    /\ []( \A id \in DOMAIN _requests, o \in Outputs :
               _requests[id].status = Pending =>
                   /\ markVerificationFailedResult(id) = "ok"
                   /\ (/\ verifyAttestation(_requests[id].attestationId)
                       /\ ~isRequestExpired(_requests[id].timestamp, now)
                       /\ _nftContract = NFT_ADDR)
                      => fulfillVerificationResult(id, o, _requests[id].attestationId,
                                                   <<"proof">>) = "ok" )
    /\ [][ /\ _paused' # _paused =>
                 UNCHANGED <<_requests, _userRequests, _requestCount,
                             _lastRequestTime, _dailyRequestCount,
                             _requestCounter, _totalRequests, relayerVars>>
           /\ _paused =>
                 UNCHANGED <<_userRequests, _requestCount, _lastRequestTime,
                             _dailyRequestCount, _requestCounter,
                             _totalRequests, treasuryReceipts>> ]_vars

\* a paused registry with a Pending request that can be fulfilled and a
\* requester whom only the pause keeps from submitting
C40_Witness ==
    /\ _paused
    /\ \E id \in DOMAIN _requests, o \in Outputs :
          /\ _requests[id].status = Pending
          /\ fulfillVerificationResult(id, o, _requests[id].attestationId, <<"proof">>) = "ok"
    /\ \E id \in DOMAIN _requests : _requests[id].status = Verified
    /\ \E r \in Users :
          /\ ~InsideWindow(r)
          /\ ~DailyLimitReached(r)
          /\ RelayerAnswer(r, TRUE) = "ok"
          /\ requestVerificationResult(r, PromptOK, ModelOK, INITIAL_FEE, TRUE, TRUE) = "Contract paused"

====
